---- MODULE Spec2Model ----
(***************************************************************************)
(* Workflow execution engine of nodebase: the topological scheduler        *)
(* (src/inngest/utils.ts), the workflow runner (src/inngest/functions.ts), *)
(* the node executors it looks up, the workflow store behind the update,   *)
(* getOne, remove and execute procedures, and the node selector of the     *)
(* editor.                                                                 *)
(***************************************************************************)
EXTENDS Integers, Sequences, FiniteSets, TLC

(***************************************************************************)
(* Bounds of the model.                                                    *)
(***************************************************************************)
\* longest connection list fed to topologicalSort on its own when the list
\* may name nodes of another workflow (one more when it names none)
MaxConns == 2
\* longest connection list of a stored workflow that the runner executes
MaxWfConns == 2
\* retries the transport grants an execution after a retriable failure
MaxRetries == 2
\* most nodes of a workflow whose executors are run
MaxExecNodes == 3
\* most nodes of a workflow of HTTP requests to every kind of endpoint
MaxHttpNodes == 2
\* nodes of a workflow whose execution is followed to its end
MaxLiveNodes == 2
\* most nodes of a workflow that is saved or deleted while it executes
MaxFlightNodes == 2
\* saves and deletes that commit while one execution runs
MaxCommits == 1
\* calls of update plus rows they submit, for one client saving in turn
SaveBudget == 5
\* the same for two clients saving at the same time
RaceBudget == 4
\* calls of getOne, update, remove and execute plus rows submitted
ApiBudget == 4
\* choices made in the node selector of the editor
MaxChoices == 4

(***************************************************************************)
(* Data: node rows, connection rows.                                       *)
(***************************************************************************)
\* NodeType enum of the schema
NodeType == {"MANUAL_TRIGGER", "INITIAL", "HTTP_REQUEST"}

\* identifiers of the nodes of the workflow under execution
NodeIds == {"a", "b", "c"}
\* identifier of a node row that belongs to another workflow
ForeignIds == {"x"}
AllIds == NodeIds \cup ForeignIds

\* endpoint served by the HTTP fixture
EndpointA == "http://test/a"

\* one node row per identifier: a trigger, a configured HTTP request and an
\* HTTP request whose data has no endpoint
NodeRow(id) ==
  CASE id = "a" -> [id |-> "a", type |-> "MANUAL_TRIGGER", data |-> [k \in {} |-> ""]]
    [] id = "b" -> [id |-> "b", type |-> "HTTP_REQUEST",
                    data |-> [endpoint |-> EndpointA, method |-> "GET"]]
    [] id = "c" -> [id |-> "c", type |-> "HTTP_REQUEST", data |-> [k \in {} |-> ""]]
    [] OTHER    -> [id |-> id, type |-> "INITIAL", data |-> [k \in {} |-> ""]]

Range(s) == {s[i] : i \in 1..Len(s)}

\* sequences without repetition over S, of length at most n
RECURSIVE DistinctSeqs(_, _)
DistinctSeqs(S, n) ==
  IF n = 0 \/ S = {} THEN {<<>>}
  ELSE {<<>>} \cup
       UNION {{<<x>> \o t : t \in DistinctSeqs(S \ {x}, n - 1)} : x \in S}

\* node lists the database can return: rows with pairwise distinct ids
NodeLists == {[i \in 1..Len(s) |-> NodeRow(s[i])] :
                s \in DistinctSeqs(NodeIds, Cardinality(NodeIds))}

Conn(u, v) == [fromNodeId |-> u, toNodeId |-> v]

\* connection lists over the identifier set Ids, at most n rows, no row twice
ConnLists(Ids, n) ==
  DistinctSeqs({Conn(u, v) : u \in Ids, v \in Ids}, n)

(***************************************************************************)
(* toposort(edges): the depth-first sort of the toposort package (2.0.2)   *)
(* that utils.ts imports.  The nodes are the first occurrences of the      *)
(* edges' endpoints; they are visited from the last to the first, a node's *)
(* children from its last outgoing edge to its first, and a node is put in *)
(* front of the sorted ones once its children are done.  visit tests       *)
(* "node is among its predecessors" before "node is visited", so every     *)
(* edge back into the current path is reported, a self-edge [n, n] too.    *)
(***************************************************************************)
\* first occurrences of s, in order ([...new Set(s)])
RECURSIVE Dedupe(_)
Dedupe(s) ==
  IF s = <<>> THEN <<>>
  ELSE LET init == Dedupe(SubSeq(s, 1, Len(s) - 1))
           last == s[Len(s)]
       IN IF last \in Range(init) THEN init ELSE Append(init, last)

RECURSIVE Flatten(_)
Flatten(edges) ==
  IF edges = <<>> THEN <<>>
  ELSE <<edges[1][1], edges[1][2]>> \o Flatten(Tail(edges))

uniqueNodes(edges) == Dedupe(Flatten(edges))

RECURSIVE Targets(_, _)
Targets(node, edges) ==
  IF edges = <<>> THEN <<>>
  ELSE (IF edges[1][1] = node THEN <<edges[1][2]>> ELSE <<>>)
       \o Targets(node, Tail(edges))

\* outgoingEdges.get(node): the targets of node in insertion order
makeOutgoingEdges(node, edges) == Dedupe(Targets(node, edges))

\* visit(node, i, predecessors); st = [err, visited, sorted].  The children
\* are visited from the last outgoing edge to the first.
RECURSIVE visit(_, _, _, _), visitChildren(_, _, _, _, _)
visit(node, predecessors, edges, st) ==
  IF st.err THEN st
  ELSE IF node \in predecessors THEN [st EXCEPT !.err = TRUE]
  ELSE IF node \in st.visited THEN st
  ELSE LET outgoing == makeOutgoingEdges(node, edges)
           st1 == [st EXCEPT !.visited = @ \cup {node}]
           st2 == visitChildren(outgoing, Len(outgoing),
                                predecessors \cup {node}, edges, st1)
       IN IF st2.err THEN st2
          ELSE [st2 EXCEPT !.sorted = <<node>> \o @]

visitChildren(outgoing, i, predecessors, edges, st) ==
  IF i = 0 THEN st
  ELSE visitChildren(outgoing, i - 1, predecessors, edges,
                     visit(outgoing[i], predecessors, edges, st))

\* while (i--) if (!visited[i]) visit(nodes[i], i, new Set())
RECURSIVE visitAll(_, _, _, _)
visitAll(nodes, i, edges, st) ==
  IF i = 0 THEN st
  ELSE visitAll(nodes, i - 1, edges, visit(nodes[i], {}, edges, st))

\* a plausible slip: a sort that never reports a cycle
toposortUnchecked(edges) ==
  [err |-> FALSE, visited |-> {}, sorted |-> uniqueNodes(edges)]

\* [err |-> TRUE] stands for the thrown "Cyclic dependency" error
toposort(edges) ==
  LET nodes == uniqueNodes(edges)
  IN visitAll(nodes, Len(nodes), edges,
              [err |-> FALSE, visited |-> {}, sorted |-> <<>>])

(***************************************************************************)
(* topologicalSort(nodes, connections)                                     *)
(***************************************************************************)
CycleMessage == "Workflow contains a cycle"

RECURSIVE SelfEdges(_, _)
SelfEdges(nodes, connectedNodeIds) ==
  IF nodes = <<>> THEN <<>>
  ELSE (IF nodes[1].id \notin connectedNodeIds
        THEN <<(<<nodes[1].id, nodes[1].id>>)>> ELSE <<>>)
       \o SelfEdges(Tail(nodes), connectedNodeIds)

\* sortedNodeIds.map(id => nodeMap.get(id)).filter(node => node !== undefined)
RECURSIVE MapBack(_, _)
MapBack(ids, nodes) ==
  IF ids = <<>> THEN <<>>
  ELSE (IF \E i \in 1..Len(nodes) : nodes[i].id = ids[1]
        THEN <<nodes[CHOOSE i \in 1..Len(nodes) : nodes[i].id = ids[1]]>>
        ELSE <<>>)
       \o MapBack(Tail(ids), nodes)

\* a plausible slip: the edge built target-first
edgeOfSwapped(conn) == <<conn.toNodeId, conn.fromNodeId>>

\* connections.map((conn) => [conn.fromNodeId, conn.toNodeId])
edgeOf(conn) == <<conn.fromNodeId, conn.toNodeId>>

\* the body of topologicalSort after the empty-connection return;
\* result: [ok |-> TRUE, nodes |-> the sorted rows], or the thrown error
sortConnected(nodes, connections) ==
  LET connEdges == [i \in 1..Len(connections) |-> edgeOf(connections[i])]
      connectedNodeIds == {connections[i].fromNodeId : i \in 1..Len(connections)}
                          \cup {connections[i].toNodeId : i \in 1..Len(connections)}
      edges == connEdges \o SelfEdges(nodes, connectedNodeIds)
      r == toposort(edges)
  IN IF r.err
     THEN [ok |-> FALSE, nodes |-> <<>>, message |-> CycleMessage]
     ELSE [ok |-> TRUE, nodes |-> MapBack(Dedupe(r.sorted), nodes), message |-> ""]

\* a plausible slip: the empty-connection return left out
topologicalSortNoFastPath(nodes, connections) == sortConnected(nodes, connections)

topologicalSort(nodes, connections) ==
  IF Len(connections) = 0 THEN [ok |-> TRUE, nodes |-> nodes, message |-> ""]
  ELSE sortConnected(nodes, connections)

(***************************************************************************)
(* Errors and the executor contract.                                       *)
(***************************************************************************)
\* new NonRetriableError(message)
NonRetriableError(message) == [message |-> message, nonRetriable |-> TRUE]
\* new Error(message)
PlainError(message) == [message |-> message, nonRetriable |-> FALSE]
NoError == [message |-> "", nonRetriable |-> FALSE]

\* WorkflowContext = Record<string, unknown>; {} is the empty mapping
EmptyContext == [k \in {} |-> 0]

\* { ...context, [key]: value }
Spread(context, key, value) ==
  [k \in DOMAIN context \cup {key} |-> IF k = key THEN value ELSE context[k]]

\* the MIME type the executor looks for in the Content-Type header
JsonMime == "application/json"

\* a Content-Type header is written as the sequence of its pieces, the
\* text application/json being one piece wherever it occurs; a response
\* without the header has the empty sequence
JsonType == <<JsonMime>>
JsonCharsetType == <<JsonMime, "; charset=utf-8">>
TextType == <<"text/plain">>
TextProfileType == <<"text/plain; profile=", JsonMime>>
NoContentType == <<>>

\* contentType?.includes("application/json")
Includes(header, piece) == \E i \in 1..Len(header) : header[i] = piece

\* contentType.startsWith("application/json")
BeginsWith(header, piece) == Len(header) > 0 /\ header[1] = piece

\* a body is written as the sequence of its tokens: the JSON text of an
\* object with one member, and a text that is no JSON
JsonBody(key, value) == <<"{", key, ":", value, "}">>
HelloBody == <<"hello">>

EndpointText == "http://test/text"
EndpointProfile == "http://test/profile"
EndpointBroken == "http://test/broken"
EndpointBare == "http://test/bare"

\* the response the HTTP fixture serves for an endpoint, whatever the
\* method: its body names the endpoint, so the responses of two endpoints
\* differ
HttpFixture(endpoint) ==
  [networkError |-> FALSE, status |-> 200, statusText |-> "OK",
   contentType |-> CASE endpoint = EndpointText    -> TextType
                     [] endpoint = EndpointProfile -> TextProfileType
                     [] endpoint = EndpointBroken  -> JsonCharsetType
                     [] endpoint = EndpointBare    -> NoContentType
                     [] OTHER                      -> JsonType,
   body |-> CASE endpoint = EndpointText   -> HelloBody
              [] endpoint = EndpointBroken -> HelloBody
              [] OTHER                     -> JsonBody("echo", endpoint)]

\* a response with status 503
ServiceUnavailable ==
  [networkError |-> FALSE, status |-> 503,
   statusText |-> "Service Unavailable", contentType |-> TextType,
   body |-> HelloBody]

\* no response at all: the connection failed (fetch rejects)
NetworkFailure ==
  [networkError |-> TRUE, status |-> 0, statusText |-> "",
   contentType |-> NoContentType, body |-> <<>>]

\* what an outbound request to the endpoint can meet
Responses(endpoint) == {HttpFixture(endpoint), ServiceUnavailable, NetworkFailure}

\* await response.json(): the parsed value, the object {key: value} written
\* as <<key, value>>; a body that is no JSON text makes it throw
responseJson(body) ==
  IF Len(body) = 5 /\ body[1] = "{" /\ body[3] = ":" /\ body[5] = "}"
  THEN [threw |-> FALSE, value |-> <<body[2], body[4]>>]
  ELSE [threw |-> TRUE, value |-> <<>>]

\* await response.text(): the body as it is
responseText(body) == [threw |-> FALSE, value |-> body]

\* the body is taken as JSON only when the header starts with the MIME type
IsJsonByPrefix(contentType) == BeginsWith(contentType, JsonMime)

\* contentType?.includes("application/json")
IsJson(contentType) == Includes(contentType, JsonMime)

\* contentType?.includes("application/json") ? await response.json()
\*                                            : await response.text()
responseData(response) ==
  IF IsJson(response.contentType)
  THEN responseJson(response.body)
  ELSE responseText(response.body)

Returned(context) == [threw |-> FALSE, context |-> context, error |-> NoError]
Threw(error) == [threw |-> TRUE, context |-> EmptyContext, error |-> error]

\* manualTriggerExecutor: step.run("manual-trigger", async () => context)
manualTriggerExecutor(data, nodeId, context) == Returned(context)

\* the name of the step manualTriggerExecutor wraps its thunk in
manualTriggerStep == "manual-trigger"

NoEndpointMessage == "HTTP Request node: No endpoint configured"

\* !data.endpoint: the field is absent or the empty string
NoEndpoint(data) == "endpoint" \notin DOMAIN data \/ data.endpoint = ""

\* if (!data.endpoint) throw new NonRetriableError(...): the error thrown
\* before the step, NoError when the check passes
httpRequestPrecheck(data) ==
  IF NoEndpoint(data) THEN NonRetriableError(NoEndpointMessage) ELSE NoError

\* data.method || "GET"
MethodOf(data) ==
  IF "method" \in DOMAIN data /\ data.method # "" THEN data.method ELSE "GET"

\* code that is not wrapped in any step
NoStep == ""

\* the request made at the top level of the executor, outside step.run
httpRequestNoStep == NoStep

\* the name of the step httpRequestExecutor wraps its request in
httpRequestStep == "http-request"

\* response.ok: the status is in the range 200-299
ResponseOk(response) == response.status >= 200 /\ response.status < 300

\* the thunk with throwHttpErrors switched off: every response is returned
httpRequestThunkNoThrow(data, context, response) ==
  LET decoded == responseData(response)
  IN Returned(Spread(context, "httpResponse",
                     [status |-> response.status,
                      statusText |-> response.statusText,
                      data |-> decoded.value]))

\* the thunk of step "http-request", given what the request met: ky rejects
\* on a network error and throws HTTPError on a response that is not ok;
\* response.json() throws on a body that is no JSON; otherwise
\* { ...context, httpResponse: {status, statusText, data} }
httpRequestThunk(data, context, response) ==
  IF response.networkError THEN Threw(PlainError("fetch failed"))
  ELSE IF ~ResponseOk(response) THEN Threw(PlainError("Request failed"))
  ELSE LET decoded == responseData(response)
       IN IF decoded.threw
          THEN Threw(PlainError("Unexpected token"))
          ELSE Returned(Spread(context, "httpResponse",
                               [status |-> response.status,
                                statusText |-> response.statusText,
                                data |-> decoded.value]))

\* httpRequestExecutor: the endpoint check, then the request inside
\* step.run("http-request", ...), here against the fixture
httpRequestExecutor(data, nodeId, context) ==
  LET early == httpRequestPrecheck(data)
  IN IF early # NoError THEN Threw(early)
     ELSE httpRequestThunk(data, context, HttpFixture(data.endpoint))

\* executorRegistry: node type -> executor (named by its function)
executorRegistry(type) ==
  CASE type = "MANUAL_TRIGGER" -> "manualTriggerExecutor"
    [] type = "INITIAL"        -> "manualTriggerExecutor"
    [] type = "HTTP_REQUEST"   -> "httpRequestExecutor"
    [] OTHER                   -> "undefined"

\* getExecutor(type): the executor, or the thrown error
getExecutor(type) ==
  LET executor == executorRegistry(type)
  IN IF executor = "undefined"
     THEN [threw |-> TRUE, executor |-> "undefined",
           error |-> PlainError("No executor found for node type")]
     ELSE [threw |-> FALSE, executor |-> executor, error |-> NoError]

\* calling the looked-up executor with {data, nodeId, context, step}
CallExecutor(executor, node, context) ==
  IF executor = "httpRequestExecutor"
  THEN httpRequestExecutor(node.data, node.id, context)
  ELSE manualTriggerExecutor(node.data, node.id, context)

\* the error the executor throws before its step, the step it wraps its
\* thunk in
PrecheckOf(executor, data) ==
  IF executor = "httpRequestExecutor" THEN httpRequestPrecheck(data) ELSE NoError

StepOf(executor) ==
  IF executor = "httpRequestExecutor" THEN httpRequestStep ELSE manualTriggerStep

StepNames == {manualTriggerStep, "http-request", NoStep}

\* the identity under which the transport checkpoints a step: the name
\* alone, or the name with the number of earlier uses of that name in the
\* same run of the handler
StepId(keyedBy, name, seen) ==
  IF keyedBy = "name" THEN <<name, 0>> ELSE <<name, seen>>

\* m with key k bound to v
Put(m, k, v) == [j \in DOMAIN m \cup {k} |-> IF j = k THEN v ELSE m[j]]

(***************************************************************************)
(* State.                                                                  *)
(*   sNodes, sConns, sPhase, sResult: a direct call of topologicalSort     *)
(*   dbNodes, dbConns: the stored graph of workflow StoredWorkflow         *)
(*   event: the trigger event; pc, attempt: the execution and its retries  *)
(*   memo: the checkpoint of step "prepare-workflow"                       *)
(*   sortedNodes, idx, context: the locals of the handler                  *)
(*   lastRead: the graph the prepare step read last                        *)
(*   prepareRuns: how often the prepare thunk ran                          *)
(*   lookups: ids of the nodes whose loop turn ran (getExecutor called)    *)
(*   invoked: ids of the nodes whose executor was called                   *)
(*   failure: the error thrown last; result: the returned value            *)
(*   keying: how the transport identifies a step                           *)
(*   stepMemo: the checkpoints of the executors' steps                     *)
(*   stepCount: uses of each step name in this run of the handler          *)
(*   requests: the outbound requests issued, in order                      *)
(*   lastCall: input and output of the executor call that returned last    *)
(*   dbExists: the row of workflow StoredWorkflow exists                   *)
(*   commits: saves and deletes committed while the execution was running  *)
(*   dbUpdatedAt: updatedAt of that row, as the number of writes to it     *)
(*   nodeTbl, connTbl: the committed rows of tables Node and Connection    *)
(*   sessions: the clients that save; tx: the transaction of each          *)
(*   txSeq: transactions begun; spent: calls and rows submitted so far     *)
(*   lastCommit: the save that committed last; committed: all payloads     *)
(*   committed; loaded: what getOne returned last                          *)
(*   wfTbl: the committed rows of table Workflow                           *)
(*   published: the trigger events sent; apiCall: the procedure called     *)
(*   last, its caller and its error; rm: the delete statement of remove    *)
(*   cNodes: the nodes on the canvas of the editor; cOpen: the selector    *)
(*   sheet is open; cToast: the error shown last; cMade: choices handled;  *)
(*   cChoice: the type chosen last                                         *)
(***************************************************************************)
VARIABLES sNodes, sConns, sPhase, sResult,
          dbNodes, dbConns, event, pc, attempt, memo,
          sortedNodes, idx, context, lastRead, prepareRuns,
          lookups, invoked, failure, result,
          keying, stepMemo, stepCount, requests, lastCall,
          dbExists, commits, dbUpdatedAt,
          nodeTbl, connTbl, sessions, tx, txSeq, spent, lastCommit,
          committed, loaded, wfTbl, published, apiCall, rm,
          cNodes, cOpen, cToast, cMade, cChoice,
          running, parked

\* the editor canvas; like the scheduler called on its own it is touched by
\* no step of the runner or the store
cvars == <<cNodes, cOpen, cToast, cMade, cChoice>>
\* the execution the runner's variables belong to and the state of a
\* second execution that is not taking a step; used where two executions
\* run side by side
pvars == <<running, parked>>
svars == <<sNodes, sConns, sPhase, sResult, cvars, pvars>>
rvars == <<dbNodes, dbConns, event, pc, attempt, memo,
           sortedNodes, idx, context, lastRead, prepareRuns,
           lookups, invoked, failure, result>>
evars == <<keying, stepMemo, stepCount, requests, lastCall>>
wvars == <<dbExists, commits, dbUpdatedAt>>
dvars == <<nodeTbl, connTbl, sessions, tx, txSeq, spent, lastCommit,
           committed, loaded, wfTbl, published, apiCall, rm>>
vars == <<svars, rvars, evars, wvars, dvars>>

NoResult == [ok |-> FALSE, nodes |-> <<>>, message |-> "not called"]

\* one execution at most: there is no second one
NoExecution == [id |-> 0]
Alone ==
  /\ running = 0
  /\ parked = NoExecution

\* no editor open
EditorUnused ==
  /\ cNodes = <<>>
  /\ cOpen = FALSE
  /\ cToast = ""
  /\ cMade = 0
  /\ cChoice = ""

StoredWorkflow == "w1"
Undefined == "<undefined>"
WorkflowIds == {StoredWorkflow, "w2", "", Undefined}
\* !workflowId
Falsy(workflowId) == workflowId \in {"", Undefined}

Events ==
  {[workflowId |-> w, hasInitialData |-> h,
    initialData |-> IF h THEN [seed |-> 1] ELSE EmptyContext] :
     w \in WorkflowIds, h \in BOOLEAN}

NoMemo == [done |-> FALSE, value |-> <<>>]
NoReturn == [returned |-> FALSE, workflowId |-> "", context |-> EmptyContext]

RunnerIdle ==
  /\ pc = "invoke"
  /\ attempt = 0
  /\ memo = NoMemo
  /\ sortedNodes = <<>>
  /\ idx = 1
  /\ context = EmptyContext
  /\ lastRead = [nodes |-> <<>>, connections |-> <<>>]
  /\ prepareRuns = 0
  /\ lookups = <<>>
  /\ invoked = <<>>
  /\ failure = NoError
  /\ result = NoReturn

NoSteps == [name \in StepNames |-> 0]
NoCheckpoints == [id \in {} |-> EmptyContext]
NoCall == [made |-> FALSE, nodeId |-> "", step |-> <<NoStep, 0>>,
           input |-> EmptyContext, output |-> EmptyContext]

\* a payload of update: the submitted nodes and edges
EmptyPayload == [nodes |-> {}, edges |-> {}]
NoGraph == [nodes |-> {}, edges |-> {}]
NoCommit == [made |-> FALSE, seq |-> 0, session |-> 0, payload |-> EmptyPayload]
NotLoaded == [done |-> FALSE, after |-> 0, graph |-> NoGraph]
NoApiCall == [op |-> "", caller |-> "", error |-> ""]
IdleRemove == [pc |-> "idle", error |-> ""]

\* no procedure called yet
NothingCalled ==
  /\ published = <<>>
  /\ apiCall = NoApiCall
  /\ rm = IdleRemove

\* no table, no client
StoreUnused ==
  /\ nodeTbl = {}
  /\ connTbl = {}
  /\ sessions = {}
  /\ tx = <<>>
  /\ txSeq = 0
  /\ spent = 0
  /\ lastCommit = NoCommit
  /\ committed = {}
  /\ loaded = NotLoaded
  /\ wfTbl = {}
  /\ NothingCalled

Untouched ==
  /\ dbExists = TRUE
  /\ commits = 0
  /\ dbUpdatedAt = 0

ExecutorsIdle ==
  /\ stepMemo = NoCheckpoints
  /\ stepCount = NoSteps
  /\ requests = <<>>
  /\ lastCall = NoCall

(***************************************************************************)
(* The scheduler on its own: topologicalSort applied to every input.       *)
(***************************************************************************)
InitSort ==
  /\ sNodes \in NodeLists
  /\ sConns \in ConnLists(AllIds, MaxConns) \cup ConnLists(NodeIds, MaxConns + 1)
  /\ sPhase = "input"
  /\ sResult = NoResult
  /\ Alone
  /\ EditorUnused
  /\ dbNodes = <<>>
  /\ dbConns = <<>>
  /\ event = [workflowId |-> Undefined, hasInitialData |-> FALSE,
              initialData |-> EmptyContext]
  /\ RunnerIdle
  /\ keying = "name"
  /\ ExecutorsIdle
  /\ Untouched
  /\ StoreUnused

CallSort ==
  /\ sPhase = "input"
  /\ sResult' = topologicalSort(sNodes, sConns)
  /\ sPhase' = "returned"
  /\ UNCHANGED <<sNodes, sConns>>
  /\ UNCHANGED cvars
  /\ UNCHANGED pvars
  /\ UNCHANGED rvars
  /\ UNCHANGED evars
  /\ UNCHANGED wvars
  /\ UNCHANGED dvars

NextSort == CallSort

SpecSort == InitSort /\ [][NextSort]_vars

(***************************************************************************)
(* The workflow runner: executeWorkflow under the transport's retries.     *)
(***************************************************************************)
Init ==
  /\ sNodes = <<>>
  /\ sConns = <<>>
  /\ sPhase = "unused"
  /\ sResult = NoResult
  /\ Alone
  /\ EditorUnused
  /\ dbNodes \in NodeLists
  /\ dbConns \in ConnLists(NodeIds, MaxWfConns)
  /\ event \in Events
  /\ RunnerIdle
  /\ keying = "name"
  /\ ExecutorsIdle
  /\ Untouched
  /\ StoreUnused

\* a transport that retries every error alike while retries are left
ThrowRetriesAll(error) ==
  /\ failure' = error
  /\ IF attempt >= MaxRetries
     THEN /\ pc' = "failed"
          /\ attempt' = attempt
     ELSE /\ pc' = "invoke"
          /\ attempt' = attempt + 1

\* an uncaught throw reaches the transport: a non-retriable error fails the
\* execution at once, any other error re-invokes the handler while retries
\* are left
Throw(error) ==
  /\ failure' = error
  /\ IF error.nonRetriable \/ attempt >= MaxRetries
     THEN /\ pc' = "failed"
          /\ attempt' = attempt
     ELSE /\ pc' = "invoke"
          /\ attempt' = attempt + 1

\* the error thrown for a missing workflow id, as a plain Error
MissingWorkflowIdPlain == PlainError("Workflow ID is missing")

\* throw new NonRetriableError("Workflow ID is missing")
MissingWorkflowId == NonRetriableError("Workflow ID is missing")

\* the handler is entered: const workflowId = ...; if (!workflowId) throw
Invoke ==
  /\ pc = "invoke"
  /\ IF Falsy(event.workflowId)
     THEN Throw(MissingWorkflowId)
     ELSE /\ pc' = "prepare"
          /\ UNCHANGED <<attempt, failure>>
  /\ UNCHANGED <<dbNodes, dbConns, event, memo, sortedNodes, idx, context,
                 lastRead, prepareRuns, lookups, invoked, result>>
  /\ stepCount' = NoSteps
  /\ UNCHANGED <<keying, stepMemo, requests, lastCall>>
  /\ UNCHANGED wvars
  /\ UNCHANGED dvars
  /\ UNCHANGED svars

\* updatedAt of a row after a write to it (@updatedAt)
UpdatedAtAfterWrite(updatedAt) == updatedAt + 1

\* a read that touches the row as a write does
UpdatedAtTouchedByRead(updatedAt) == updatedAt + 1

\* updatedAt of the workflow row after prisma.workflow.findUniqueOrThrow,
\* which reads it
UpdatedAtAfterRead(updatedAt) == updatedAt

\* step.run("prepare-workflow", ...) with no checkpoint: the thunk loads the
\* workflow and sorts it; its value is checkpointed and the handler is
\* entered again, an error goes to the transport
PrepareRun ==
  /\ pc = "prepare"
  /\ ~memo.done
  /\ prepareRuns' = prepareRuns + 1
  /\ IF event.workflowId # StoredWorkflow \/ ~dbExists
     THEN /\ Throw(PlainError("No Workflow found"))
          /\ UNCHANGED <<memo, lastRead>>
     ELSE LET sorted == topologicalSort(dbNodes, dbConns)
          IN /\ lastRead' = [nodes |-> dbNodes, connections |-> dbConns]
             /\ IF sorted.ok
                THEN /\ memo' = [done |-> TRUE, value |-> sorted.nodes]
                     /\ pc' = "invoke"
                     /\ UNCHANGED <<attempt, failure>>
                ELSE /\ Throw(PlainError(sorted.message))
                     /\ UNCHANGED memo
  /\ UNCHANGED <<dbNodes, dbConns, event, sortedNodes, idx, context,
                 lookups, invoked, result>>
  /\ UNCHANGED evars
  /\ dbUpdatedAt' = UpdatedAtAfterRead(dbUpdatedAt)
  /\ UNCHANGED <<dbExists, commits>>
  /\ UNCHANGED dvars
  /\ UNCHANGED svars

\* the step of a resumed run sorting the graph as it is stored now
PreparedValueReloaded == topologicalSort(dbNodes, dbConns).nodes

\* const sortedNodes = await step.run("prepare-workflow", ...) with a
\* checkpoint: the checkpointed value
PreparedValue == memo.value

\* step.run("prepare-workflow", ...) with a checkpoint: the checkpointed
\* value is returned; then let context = event.data.initialData || {}
PrepareMemoized ==
  /\ pc = "prepare"
  /\ memo.done
  /\ sortedNodes' = PreparedValue
  /\ context' = IF event.hasInitialData THEN event.initialData ELSE EmptyContext
  /\ idx' = 1
  /\ pc' = "loop"
  /\ UNCHANGED <<dbNodes, dbConns, event, attempt, memo, lastRead, prepareRuns,
                 lookups, invoked, failure, result>>
  /\ UNCHANGED evars
  /\ UNCHANGED wvars
  /\ UNCHANGED dvars
  /\ UNCHANGED svars

\* one turn of for (const node of sortedNodes): the executor is looked up;
\* the body calls nothing else, so context and invoked stay as they are
LoopTurn ==
  /\ pc = "loop"
  /\ idx <= Len(sortedNodes)
  /\ LET node == sortedNodes[idx]
         found == getExecutor(node.type)
     IN IF found.threw
        THEN /\ Throw(found.error)
             /\ UNCHANGED <<idx, lookups>>
        ELSE /\ lookups' = Append(lookups, node.id)
             /\ idx' = idx + 1
             /\ UNCHANGED <<pc, attempt, failure>>
  /\ UNCHANGED <<dbNodes, dbConns, event, memo, sortedNodes, context,
                 lastRead, prepareRuns, invoked, result>>
  /\ UNCHANGED evars
  /\ UNCHANGED wvars
  /\ UNCHANGED dvars
  /\ UNCHANGED svars

\* return { workflowId, context }
Return ==
  /\ pc = "loop"
  /\ idx > Len(sortedNodes)
  /\ result' = [returned |-> TRUE, workflowId |-> event.workflowId,
                context |-> context]
  /\ pc' = "done"
  /\ UNCHANGED <<dbNodes, dbConns, event, attempt, memo, sortedNodes, idx,
                 context, lastRead, prepareRuns, lookups, invoked, failure>>
  /\ UNCHANGED evars
  /\ UNCHANGED wvars
  /\ UNCHANGED dvars
  /\ UNCHANGED svars

Next ==
  \/ Invoke
  \/ PrepareRun
  \/ PrepareMemoized
  \/ LoopTurn
  \/ Return

Spec == Init /\ [][Next]_vars

(***************************************************************************)
(* The runner with the call its loop is written for:                       *)
(*   context = await executor({data, nodeId, context, step}).              *)
(* A step without a checkpoint runs its thunk; the value is checkpointed   *)
(* and the handler is entered again, so an executor returns the value of   *)
(* its step from the checkpoint.  A step with a checkpoint returns it and  *)
(* the thunk does not run.                                                 *)
(***************************************************************************)
EndpointB == "http://test/b"

\* an enum value that has no entry in the executor registry
UnregisteredType == "WEBHOOK"

ExecNodeIds == {"t1", "t2", "h1", "h2", "c", "w"}

\* two triggers, two configured HTTP requests, an HTTP request without
\* endpoint and a node of a type without executor; HTTP requests to the
\* endpoints that answer with text, with a header that holds the MIME type
\* after other text, with a JSON header on a body that is no JSON and with
\* no header; an HTTP request with a method outside the five of
\* HttpRequestData
ExecNodeRow(id) ==
  CASE id = "t1" -> [id |-> id, type |-> "MANUAL_TRIGGER", data |-> [k \in {} |-> ""]]
    [] id = "t2" -> [id |-> id, type |-> "INITIAL", data |-> [k \in {} |-> ""]]
    [] id = "h1" -> [id |-> id, type |-> "HTTP_REQUEST",
                     data |-> [endpoint |-> EndpointA, method |-> "GET"]]
    [] id = "h2" -> [id |-> id, type |-> "HTTP_REQUEST",
                     data |-> [endpoint |-> EndpointB, method |-> "POST"]]
    [] id = "c"  -> [id |-> id, type |-> "HTTP_REQUEST", data |-> [k \in {} |-> ""]]
    [] id = "ht" -> [id |-> id, type |-> "HTTP_REQUEST",
                     data |-> [endpoint |-> EndpointText, method |-> "GET"]]
    [] id = "hp" -> [id |-> id, type |-> "HTTP_REQUEST",
                     data |-> [endpoint |-> EndpointProfile, method |-> "GET"]]
    [] id = "hb" -> [id |-> id, type |-> "HTTP_REQUEST",
                     data |-> [endpoint |-> EndpointBroken, method |-> "DELETE"]]
    [] id = "hn" -> [id |-> id, type |-> "HTTP_REQUEST",
                     data |-> [endpoint |-> EndpointBare]]
    [] id = "ho" -> [id |-> id, type |-> "HTTP_REQUEST",
                     data |-> [endpoint |-> EndpointA, method |-> "OPTIONS"]]
    [] OTHER     -> [id |-> id, type |-> UnregisteredType, data |-> [k \in {} |-> ""]]

ExecNodeLists == {[i \in 1..Len(s) |-> ExecNodeRow(s[i])] :
                    s \in DistinctSeqs(ExecNodeIds, MaxExecNodes)}

InitExec ==
  /\ sNodes = <<>>
  /\ sConns = <<>>
  /\ sPhase = "unused"
  /\ sResult = NoResult
  /\ Alone
  /\ EditorUnused
  /\ dbNodes \in ExecNodeLists
  /\ dbConns = <<>>
  /\ event \in {e \in Events : e.workflowId = StoredWorkflow}
  /\ RunnerIdle
  /\ keying \in {"name", "indexed"}
  /\ ExecutorsIdle
  /\ Untouched
  /\ StoreUnused

\* the executor returns value: context = await executor(...)
ExecutorReturns(node, id, value) ==
  /\ context' = value
  /\ idx' = idx + 1
  /\ lastCall' = [made |-> TRUE, nodeId |-> node.id, step |-> id,
                  input |-> context, output |-> value]
  /\ UNCHANGED <<pc, attempt, failure>>

\* the thunk of step id has returned value: the transport checkpoints it
\* and enters the handler again
Checkpoint(id, value) ==
  /\ stepMemo' = Put(stepMemo, id, value)
  /\ pc' = "invoke"
  /\ UNCHANGED <<attempt, failure, context, idx, lastCall>>

\* the outcome r of a thunk: an error goes to the transport, a value is
\* checkpointed under the step, or returned as it is outside any step
Settle(name, id, node, r) ==
  IF r.threw
  THEN /\ Throw(r.error)
       /\ UNCHANGED <<stepMemo, context, idx, lastCall>>
  ELSE IF name = NoStep
       THEN /\ ExecutorReturns(node, id, r.context)
            /\ UNCHANGED stepMemo
       ELSE Checkpoint(id, r.context)

\* the thunk of the executor runs; the HTTP thunk issues its request
RunThunk(executor, name, id, node) ==
  IF executor = "httpRequestExecutor"
  THEN \E response \in Responses(node.data.endpoint) :
          LET r == httpRequestThunk(node.data, context, response)
          IN /\ requests' = Append(requests,
                                   [nodeId |-> node.id,
                                    endpoint |-> node.data.endpoint,
                                    method |-> MethodOf(node.data),
                                    networkError |-> response.networkError,
                                    status |-> response.status,
                                    statusText |-> response.statusText,
                                    contentType |-> response.contentType,
                                    body |-> response.body])
             /\ Settle(name, id, node, r)
  ELSE /\ UNCHANGED requests
       /\ Settle(name, id, node,
                 manualTriggerExecutor(node.data, node.id, context))

\* the body of the looked-up executor: its check, then its step
RunExecutor(executor, node) ==
  LET early == PrecheckOf(executor, node.data)
      name == StepOf(executor)
      id == StepId(keying, name, stepCount[name])
  IN IF early # NoError
     THEN /\ Throw(early)
          /\ UNCHANGED <<context, idx, stepMemo, stepCount, requests, lastCall>>
     ELSE /\ stepCount' = [stepCount EXCEPT ![name] = @ + 1]
          /\ IF name # NoStep /\ id \in DOMAIN stepMemo
             THEN /\ ExecutorReturns(node, id, stepMemo[id])
                  /\ UNCHANGED <<stepMemo, requests>>
             ELSE RunThunk(executor, name, id, node)

\* one turn of for (const node of sortedNodes) with the executor called
ExecTurn ==
  /\ pc = "loop"
  /\ idx <= Len(sortedNodes)
  /\ LET node == sortedNodes[idx]
         found == getExecutor(node.type)
     IN IF found.threw
        THEN /\ Throw(found.error)
             /\ UNCHANGED <<idx, context, lookups, invoked>>
             /\ UNCHANGED <<stepMemo, stepCount, requests, lastCall>>
        ELSE /\ lookups' = Append(lookups, node.id)
             /\ invoked' = Append(invoked, node.id)
             /\ RunExecutor(found.executor, node)
  /\ UNCHANGED <<dbNodes, dbConns, event, memo, sortedNodes, lastRead,
                 prepareRuns, result, keying>>
  /\ UNCHANGED wvars
  /\ UNCHANGED dvars
  /\ UNCHANGED svars

NextExec ==
  \/ Invoke
  \/ PrepareRun
  \/ PrepareMemoized
  \/ ExecTurn
  \/ Return

SpecExec == InitExec /\ [][NextExec]_vars

(***************************************************************************)
(* The runner with the executor call on workflows of HTTP requests that    *)
(* meet every kind of response.                                            *)
(***************************************************************************)
HttpNodeIds == {"t1", "h1", "ht", "hp", "hb", "hn", "ho"}

HttpNodeLists == {[i \in 1..Len(s) |-> ExecNodeRow(s[i])] :
                    s \in DistinctSeqs(HttpNodeIds, MaxHttpNodes)}

InitHttp ==
  /\ sNodes = <<>>
  /\ sConns = <<>>
  /\ sPhase = "unused"
  /\ sResult = NoResult
  /\ Alone
  /\ EditorUnused
  /\ dbNodes \in HttpNodeLists
  /\ dbConns = <<>>
  /\ event \in {e \in Events : e.workflowId = StoredWorkflow}
  /\ RunnerIdle
  /\ keying \in {"name", "indexed"}
  /\ ExecutorsIdle
  /\ Untouched
  /\ StoreUnused

SpecHttp == InitHttp /\ [][NextExec]_vars

(***************************************************************************)
(* The runner with the executor call under a fair transport: an execution  *)
(* that can take a step is given one, so the handler is entered again      *)
(* after every checkpoint and after every error that is retried.           *)
(***************************************************************************)
LiveNodeLists == {[i \in 1..Len(s) |-> ExecNodeRow(s[i])] :
                    s \in DistinctSeqs(ExecNodeIds, MaxLiveNodes)}

\* no connection or one connection between nodes of the workflow
LiveConnLists(nodes) ==
  ConnLists({nodes[i].id : i \in 1..Len(nodes)}, 1)

InitLive ==
  /\ sNodes = <<>>
  /\ sConns = <<>>
  /\ sPhase = "unused"
  /\ sResult = NoResult
  /\ Alone
  /\ EditorUnused
  /\ dbNodes \in LiveNodeLists
  /\ dbConns \in LiveConnLists(dbNodes)
  /\ event \in {e \in Events : e.workflowId = StoredWorkflow}
  /\ RunnerIdle
  /\ keying \in {"name", "indexed"}
  /\ ExecutorsIdle
  /\ Untouched
  /\ StoreUnused

\* the prepare step is waited for: it has no checkpoint yet
AwaitingPrepare == pc = "prepare" /\ ~memo.done

\* weak fairness of PrepareRun, written out: PrepareRun is enabled exactly
\* while the prepare step is waited for and every step of it ends the
\* wait, so a behaviour is fair to it iff the wait does not last forever
PrepareRunFair == []<>~AwaitingPrepare

\* the transport enters the handler when an execution is due, runs the
\* step that is due and resumes the handler after it
FairTransport ==
  /\ WF_vars(Invoke)
  /\ PrepareRunFair
  /\ WF_vars(PrepareMemoized)
  /\ WF_vars(ExecTurn)
  /\ WF_vars(Return)

SpecLive == InitLive /\ [][NextExec]_vars /\ FairTransport

(***************************************************************************)
(* Two executions of the same workflow side by side.  Each is a run of the *)
(* handler with its own event, its own local variables and its own         *)
(* checkpoints at the transport; the stored workflow is common to both.    *)
(* The runner's variables hold the execution that takes the next step, the *)
(* other one is kept aside as a record; between any two steps the          *)
(* scheduler may give the turn to the other execution.                     *)
(***************************************************************************)
\* the nodes of a workflow that is executed twice: a trigger and an HTTP
\* request, in either order, or fewer
PairNodeIds == {"t1", "h1"}

PairNodeLists == {[i \in 1..Len(s) |-> ExecNodeRow(s[i])] :
                    s \in DistinctSeqs(PairNodeIds, Cardinality(PairNodeIds))}

\* the events of the second execution: its initial data differs from the
\* first one's
SecondEvents ==
  {[workflowId |-> StoredWorkflow, hasInitialData |-> h,
    initialData |-> IF h THEN [seed |-> 2] ELSE EmptyContext] : h \in BOOLEAN}

\* an execution whose event is delivered and that has not started
IdleExecution(id, ev) ==
  [id |-> id, event |-> ev, pc |-> "invoke", attempt |-> 0, memo |-> NoMemo,
   sortedNodes |-> <<>>, idx |-> 1, context |-> EmptyContext,
   lastRead |-> [nodes |-> <<>>, connections |-> <<>>], prepareRuns |-> 0,
   lookups |-> <<>>, invoked |-> <<>>, failure |-> NoError,
   result |-> NoReturn, stepMemo |-> NoCheckpoints, stepCount |-> NoSteps,
   requests |-> <<>>, lastCall |-> NoCall]

\* the execution that is taking steps, as a record
RunningExecution ==
  [id |-> running, event |-> event, pc |-> pc, attempt |-> attempt,
   memo |-> memo, sortedNodes |-> sortedNodes, idx |-> idx,
   context |-> context, lastRead |-> lastRead, prepareRuns |-> prepareRuns,
   lookups |-> lookups, invoked |-> invoked, failure |-> failure,
   result |-> result, stepMemo |-> stepMemo, stepCount |-> stepCount,
   requests |-> requests, lastCall |-> lastCall]

\* a context kept in a variable of the module: the execution that gets the
\* turn finds what the other one left there
ModuleContext(own, left) == left

\* let context = ... inside the handler: the execution that gets the turn
\* finds its own value, whatever the other execution left in its variable
HandlerContext(own, left) == own

InitPair ==
  /\ sNodes = <<>>
  /\ sConns = <<>>
  /\ sPhase = "unused"
  /\ sResult = NoResult
  /\ EditorUnused
  /\ dbNodes \in PairNodeLists
  /\ dbConns = <<>>
  /\ event \in {e \in Events : e.workflowId = StoredWorkflow}
  /\ RunnerIdle
  /\ keying \in {"name", "indexed"}
  /\ ExecutorsIdle
  /\ Untouched
  /\ StoreUnused
  /\ running = 1
  /\ parked \in {IdleExecution(2, e) : e \in SecondEvents}

\* the scheduler gives the turn to the other execution, which resumes where
\* it was; the database and the transport's way to name steps are common
Switch ==
  /\ running # 0
  /\ parked.pc \notin {"done", "failed"}
  /\ parked' = RunningExecution
  /\ running' = parked.id
  /\ event' = parked.event
  /\ pc' = parked.pc
  /\ attempt' = parked.attempt
  /\ memo' = parked.memo
  /\ sortedNodes' = parked.sortedNodes
  /\ idx' = parked.idx
  /\ context' = HandlerContext(parked.context, context)
  /\ lastRead' = parked.lastRead
  /\ prepareRuns' = parked.prepareRuns
  /\ lookups' = parked.lookups
  /\ invoked' = parked.invoked
  /\ failure' = parked.failure
  /\ result' = parked.result
  /\ stepMemo' = parked.stepMemo
  /\ stepCount' = parked.stepCount
  /\ requests' = parked.requests
  /\ lastCall' = parked.lastCall
  /\ UNCHANGED <<dbNodes, dbConns, keying>>
  /\ UNCHANGED wvars
  /\ UNCHANGED dvars
  /\ UNCHANGED <<sNodes, sConns, sPhase, sResult, cvars>>

NextPair ==
  \/ Invoke
  \/ PrepareRun
  \/ PrepareMemoized
  \/ ExecTurn
  \/ Return
  \/ Switch

SpecPair == InitPair /\ [][NextPair]_vars

(***************************************************************************)
(* An execution with saves and deletes of its workflow committing while it *)
(* runs.  A commit is seen by the runner as the stored graph changing      *)
(* between two of its steps.                                               *)
(***************************************************************************)
FlightNodeLists == {[i \in 1..Len(s) |-> ExecNodeRow(s[i])] :
                      s \in DistinctSeqs(ExecNodeIds, MaxFlightNodes)}

\* the node lists of the saves that commit in flight
SavedNodeLists ==
  {<<>>, <<ExecNodeRow("h2")>>, <<ExecNodeRow("t2"), ExecNodeRow("h2")>>}

InitFlight ==
  /\ sNodes = <<>>
  /\ sConns = <<>>
  /\ sPhase = "unused"
  /\ sResult = NoResult
  /\ Alone
  /\ EditorUnused
  /\ dbNodes \in FlightNodeLists
  /\ dbConns = <<>>
  /\ event \in {e \in Events : e.workflowId = StoredWorkflow}
  /\ RunnerIdle
  /\ keying \in {"name", "indexed"}
  /\ ExecutorsIdle
  /\ Untouched
  /\ StoreUnused

InFlight == pc \notin {"done", "failed"}

\* the transaction of update commits: the nodes of the workflow are the
\* submitted ones, the connections the submitted edges
SaveCommits ==
  /\ InFlight
  /\ dbExists
  /\ commits < MaxCommits
  /\ \E nodes \in SavedNodeLists :
        /\ dbNodes' = nodes
        /\ dbConns' = <<>>
  /\ commits' = commits + 1
  /\ dbUpdatedAt' = UpdatedAtAfterWrite(dbUpdatedAt)
  /\ UNCHANGED dbExists
  /\ UNCHANGED <<event, pc, attempt, memo, sortedNodes, idx, context, lastRead,
                 prepareRuns, lookups, invoked, failure, result>>
  /\ UNCHANGED evars
  /\ UNCHANGED dvars
  /\ UNCHANGED svars

\* remove commits: the workflow row is deleted, and with it (onDelete:
\* Cascade) its nodes and connections
DeleteCommits ==
  /\ InFlight
  /\ dbExists
  /\ commits < MaxCommits
  /\ dbExists' = FALSE
  /\ dbNodes' = <<>>
  /\ dbConns' = <<>>
  /\ commits' = commits + 1
  /\ UNCHANGED dbUpdatedAt
  /\ UNCHANGED <<event, pc, attempt, memo, sortedNodes, idx, context, lastRead,
                 prepareRuns, lookups, invoked, failure, result>>
  /\ UNCHANGED evars
  /\ UNCHANGED dvars
  /\ UNCHANGED svars

NextFlight ==
  \/ Invoke
  \/ PrepareRun
  \/ PrepareMemoized
  \/ ExecTurn
  \/ Return
  \/ SaveCommits
  \/ DeleteCommits

SpecFlight == InitFlight /\ [][NextFlight]_vars

(***************************************************************************)
(* The store: update (delete and recreate in one transaction) and getOne,  *)
(* on tables Node and Connection.  A transaction sees the committed rows   *)
(* at the time of each statement and its own writes; a row it deleted is   *)
(* locked until it ends, a statement that meets a lock or an uncommitted   *)
(* key of another transaction waits, and a deleteMany that waited deletes  *)
(* the rows it had found that are still there.  A failed statement rolls   *)
(* the transaction back.                                                   *)
(***************************************************************************)
OtherWorkflow == "w2"
Owner == "alice"
Users == {Owner, "bob"}
NullValue == "<null>"
NoData == [k \in {} |-> ""]

\* node.type || "unknown", edge.sourceHandle || "main": the falsy values
FalsyString(v) == v \in {NullValue, Undefined, ""}

\* the rows of table Workflow: the workflow of the owner and another
\* user's workflow
WorkflowRows ==
  {[id |-> StoredWorkflow, userId |-> Owner, updatedAt |-> 0],
   [id |-> OtherWorkflow, userId |-> "bob", updatedAt |-> 0]}

\* a lookup by id alone: where: {id}
Exists(caller, workflowId) == \E w \in wfTbl : w.id = workflowId

\* where: {id, userId: ctx.auth.user.id} finds a row
Owns(caller, workflowId) ==
  \E w \in wfTbl : w.id = workflowId /\ w.userId = caller

\* no row of table Workflow has the id: a row that references it violates
\* its foreign key, an update of it finds no record
WorkflowRowMissing(workflowId) == \A w \in wfTbl : w.id # workflowId

\* remove has deleted the workflow row and has not committed: the row is
\* locked
HeldByRemove == rm.pc = "cascade"

\* a row of table Node (timestamps left out); ver tells the transaction
\* that wrote the row
InitialNode ==
  [id |-> "n0", workflowId |-> StoredWorkflow, name |-> "INITIAL",
   type |-> "INITIAL", position |-> [x |-> 0, y |-> 0], data |-> NoData,
   ver |-> 0]

\* the nodes of another workflow
ForeignNodes ==
  {[id |-> i, workflowId |-> OtherWorkflow, name |-> "MANUAL_TRIGGER",
    type |-> "MANUAL_TRIGGER", position |-> [x |-> 0, y |-> 0],
    data |-> NoData, ver |-> 0] : i \in {"x", "y"}}

\* the nodes a client submits: a trigger without data, an HTTP request, a
\* node with type null and a node under the id of a foreign node
NodeInputs ==
  {[id |-> "n1", type |-> "MANUAL_TRIGGER", position |-> [x |-> 0, y |-> 0],
    hasData |-> FALSE, data |-> NoData],
   [id |-> "n2", type |-> "HTTP_REQUEST", position |-> [x |-> 100, y |-> 50],
    hasData |-> TRUE, data |-> [endpoint |-> EndpointA]],
   [id |-> "n3", type |-> NullValue, position |-> [x |-> 7, y |-> 7],
    hasData |-> TRUE, data |-> NoData],
   [id |-> "x", type |-> "INITIAL", position |-> [x |-> 0, y |-> 0],
    hasData |-> TRUE, data |-> NoData]}

\* the edges a client submits: handles null and omitted, handles given,
\* an empty handle, and an edge between two foreign nodes
EdgeInputs ==
  {[source |-> "n1", target |-> "n2", sourceHandle |-> NullValue,
    targetHandle |-> Undefined],
   [source |-> "n1", target |-> "n2", sourceHandle |-> "main",
    targetHandle |-> "main"],
   [source |-> "n2", target |-> "n1", sourceHandle |-> "out",
    targetHandle |-> ""],
   [source |-> "x", target |-> "y", sourceHandle |-> "main",
    targetHandle |-> "main"]}

\* one call and the rows it submits
Cost(p) == 1 + Cardinality(p.nodes) + Cardinality(p.edges)

HasDistinctIds(nodes) ==
  \A m \in nodes : \A n \in nodes : m.id = n.id => m = n

Payloads(budget) ==
  {p \in [nodes : SUBSET NodeInputs, edges : SUBSET EdgeInputs] :
     HasDistinctIds(p.nodes) /\ Cost(p) <= budget}

\* payloads whose nodes and edge endpoints are the client's own nodes
OwnPayloads(budget) ==
  {p \in Payloads(budget) :
     /\ \A n \in p.nodes : n.id \notin {"x", "y"}
     /\ \A e \in p.edges : {e.source, e.target} \cap {"x", "y"} = {}}

\* the row update creates for a submitted node
nodeRow(workflowId, node, ver) ==
  [id |-> node.id, workflowId |-> workflowId,
   name |-> IF FalsyString(node.type) THEN "unknown" ELSE node.type,
   type |-> node.type, position |-> node.position,
   data |-> IF node.hasData THEN node.data ELSE NoData, ver |-> ver]

\* the row update creates for a submitted edge
edgeRow(workflowId, edge, ver) ==
  [workflowId |-> workflowId, fromNodeId |-> edge.source,
   toNodeId |-> edge.target,
   fromOutput |-> IF FalsyString(edge.sourceHandle) THEN "main"
                  ELSE edge.sourceHandle,
   toInput |-> IF FalsyString(edge.targetHandle) THEN "main"
               ELSE edge.targetHandle,
   ver |-> ver]

\* getOne: a stored node as a react-flow node
nodeView(node) ==
  [id |-> node.id, type |-> node.type, position |-> node.position,
   hasData |-> TRUE, data |-> node.data]

\* an edge built with the two handles taken from the wrong columns
edgeViewSwapped(connection) ==
  [source |-> connection.fromNodeId, target |-> connection.toNodeId,
   sourceHandle |-> connection.toInput, targetHandle |-> connection.fromOutput]

\* getOne: a stored connection as a react-flow edge (the generated id left out)
edgeView(connection) ==
  [source |-> connection.fromNodeId, target |-> connection.toNodeId,
   sourceHandle |-> connection.fromOutput, targetHandle |-> connection.toInput]

\* getOne on the committed rows of a workflow
getOne(workflowId) ==
  [nodes |-> {nodeView(r) : r \in {q \in nodeTbl : q.workflowId = workflowId}},
   edges |-> {edgeView(c) : c \in {d \in connTbl : d.workflowId = workflowId}}]

\* @@unique([fromNodeId, toNodeId, fromOutput, toInput])
UniqueKey(c) == <<c.fromNodeId, c.toNodeId, c.fromOutput, c.toInput>>

IdleTx ==
  [pc |-> "idle", payload |-> EmptyPayload, ver |-> 0, error |-> "",
   snap |-> {}, delNodes |-> {}, delConns |-> {}, insNodes |-> {},
   insConns |-> {}]

\* client 1 saves alone, clients 1 and 2 save at the same time, client 3
\* saves while the other procedures are called
Budget ==
  CASE sessions = {1}    -> SaveBudget
    [] sessions = {1, 2} -> RaceBudget
    [] OTHER             -> ApiBudget

SavePayloads == Payloads(SaveBudget)
RacePayloads == OwnPayloads(RaceBudget)
ApiPayloads == Payloads(ApiBudget)

\* what a client may submit: anything unless two clients save
Submittable ==
  CASE sessions = {1}    -> SavePayloads
    [] sessions = {1, 2} -> RacePayloads
    [] OTHER             -> ApiPayloads

Others(t) == sessions \ {t}

\* the rows of the workflow a statement of t finds
NodesSeenBy(t) == (nodeTbl \ tx[t].delNodes) \cup tx[t].insNodes
ConnsSeenBy(t) == (connTbl \ tx[t].delConns) \cup tx[t].insConns

\* rows deleted, keys inserted by transactions other than t that have not ended
LockedByOthers(t) == UNION {tx[o].delNodes : o \in Others(t)}
NodeIdsOfOthers(t) == UNION {{r.id : r \in tx[o].insNodes} : o \in Others(t)}
ConnKeysOfOthers(t) ==
  UNION {{UniqueKey(c) : c \in tx[o].insConns} : o \in Others(t)}

\* onDelete: Cascade on fromNode and toNode
Cascade(nodes) ==
  {c \in connTbl : \E r \in nodes : r.id \in {c.fromNodeId, c.toNodeId}}

\* a workflow deleted without its nodes
NoCascadeOfWorkflow(workflowId) == {}

\* onDelete: Cascade on Node.workflow: the nodes deleted with the workflow
CascadeOfWorkflow(workflowId) == {r \in nodeTbl : r.workflowId = workflowId}

\* onDelete: Cascade on Connection.workflow
ConnsOfWorkflow(workflowId) == {c \in connTbl : c.workflowId = workflowId}

\* the statements of a transaction without the transaction: what was
\* deleted stays deleted
NotRolledBack(table, deleted) == table \ deleted

\* a committed table after the transaction that deleted rows of it was
\* rolled back
RolledBack(table, deleted) == table

\* the statement failed: the transaction is rolled back, the call rejects
Abort(t, error) ==
  tx' = [tx EXCEPT ![t] = [IdleTx EXCEPT !.error = error]]

UnchangedTables == UNCHANGED <<nodeTbl, connTbl, wfTbl, lastCommit, committed>>

\* the committed tables after a statement of t that may have failed
TablesAfter(t) ==
  /\ nodeTbl' = IF tx'[t].pc = "idle"
                THEN RolledBack(nodeTbl, tx[t].delNodes) ELSE nodeTbl
  /\ connTbl' = IF tx'[t].pc = "idle"
                THEN RolledBack(connTbl, tx[t].delConns) ELSE connTbl
  /\ UNCHANGED <<wfTbl, lastCommit, committed>>

Called(op, caller, error) == [op |-> op, caller |-> caller, error |-> error]

\* update is called: findUniqueOrThrow({id, userId}), then the transaction
\* begins
BeginSave(t) ==
  /\ tx[t].pc = "idle"
  /\ \E caller \in Users, p \in Submittable :
        /\ spent + Cost(p) <= Budget
        /\ spent' = spent + Cost(p)
        /\ IF ~Owns(caller, StoredWorkflow)
           THEN /\ Abort(t, "NotFound")
                /\ apiCall' = Called("update", caller, "NotFound")
                /\ UNCHANGED txSeq
           ELSE /\ tx' = [tx EXCEPT ![t] = [IdleTx EXCEPT !.pc = "delete",
                                                         !.payload = p,
                                                         !.ver = txSeq + 1]]
                /\ apiCall' = Called("update", caller, "")
                /\ txSeq' = txSeq + 1
  /\ UnchangedTables
  /\ UNCHANGED <<sessions, loaded, published, rm>>
  /\ UNCHANGED <<svars, rvars, evars, wvars>>

\* tx.node.deleteMany({where: {workflowId}}): the nodes found are deleted
\* with the connections at them, or the statement waits for a lock
DeleteNodes(t) ==
  /\ tx[t].pc = "delete"
  /\ LET found == {r \in NodesSeenBy(t) : r.workflowId = StoredWorkflow}
     IN IF found \cap LockedByOthers(t) # {}
        THEN tx' = [tx EXCEPT ![t].pc = "deleteWait", ![t].snap = found]
        ELSE tx' = [tx EXCEPT ![t].pc = "nodes", ![t].delNodes = found,
                              ![t].delConns = Cascade(found)]
  /\ UnchangedTables
  /\ UNCHANGED <<sessions, txSeq, spent, loaded, published, apiCall, rm>>
  /\ UNCHANGED <<svars, rvars, evars, wvars>>

\* the lock is gone: the statement deletes the rows it had found, as far as
\* they are still there
DeleteResume(t) ==
  /\ tx[t].pc = "deleteWait"
  /\ tx[t].snap \cap LockedByOthers(t) = {}
  /\ LET found == tx[t].snap \cap nodeTbl
     IN tx' = [tx EXCEPT ![t].pc = "nodes", ![t].snap = {},
                         ![t].delNodes = found,
                         ![t].delConns = Cascade(found)]
  /\ UnchangedTables
  /\ UNCHANGED <<sessions, txSeq, spent, loaded, published, apiCall, rm>>
  /\ UNCHANGED <<svars, rvars, evars, wvars>>

\* tx.node.createMany: a type outside the enum and an id that is stored
\* already make it fail; an id another transaction inserts makes it wait
InsertNodes(t) ==
  /\ tx[t].pc = "nodes"
  /\ LET rows == {nodeRow(StoredWorkflow, n, tx[t].ver) : n \in tx[t].payload.nodes}
         ids == {r.id : r \in rows}
     IN /\ ids \cap NodeIdsOfOthers(t) = {}
        /\ rows # {} => ~HeldByRemove
        /\ IF \E r \in rows : r.type \notin NodeType
           THEN Abort(t, "Validation")
           ELSE IF \E q \in NodesSeenBy(t) : q.id \in ids
           THEN Abort(t, "UniqueConstraint")
           ELSE IF rows # {} /\ WorkflowRowMissing(StoredWorkflow)
           THEN Abort(t, "ForeignKeyConstraint")
           ELSE tx' = [tx EXCEPT ![t].pc = "conns", ![t].insNodes = rows]
  /\ TablesAfter(t)
  /\ UNCHANGED <<sessions, txSeq, spent, loaded, published, apiCall, rm>>
  /\ UNCHANGED <<svars, rvars, evars, wvars>>

\* tx.connection.createMany: an endpoint that is no stored node and a key
\* (fromNodeId, toNodeId, fromOutput, toInput) that occurs twice make it
\* fail; a locked endpoint or a key another transaction inserts makes it wait
InsertConns(t) ==
  /\ tx[t].pc = "conns"
  /\ LET rows == {edgeRow(StoredWorkflow, e, tx[t].ver) : e \in tx[t].payload.edges}
         seen == {r.id : r \in NodesSeenBy(t)}
     IN /\ \A c \in rows : \A r \in LockedByOthers(t) :
              r.id \notin {c.fromNodeId, c.toNodeId}
        /\ {UniqueKey(c) : c \in rows} \cap ConnKeysOfOthers(t) = {}
        /\ rows # {} => ~HeldByRemove
        /\ IF \/ \E c \in rows : ~({c.fromNodeId, c.toNodeId} \subseteq seen)
              \/ rows # {} /\ WorkflowRowMissing(StoredWorkflow)
           THEN Abort(t, "ForeignKeyConstraint")
           ELSE IF \/ Cardinality(rows) < Cardinality(tx[t].payload.edges)
                   \/ \E c \in rows : \E d \in ConnsSeenBy(t) :
                         UniqueKey(c) = UniqueKey(d)
           THEN Abort(t, "UniqueConstraint")
           ELSE tx' = [tx EXCEPT ![t].pc = "touch", ![t].insConns = rows]
  /\ TablesAfter(t)
  /\ UNCHANGED <<sessions, txSeq, spent, loaded, published, apiCall, rm>>
  /\ UNCHANGED <<svars, rvars, evars, wvars>>

\* tx.workflow.update({where: {id}, data: {updatedAt}}): the workflow row
\* is locked; without the row the statement throws
Touch(t) ==
  /\ tx[t].pc = "touch"
  /\ \A o \in Others(t) : tx[o].pc # "commit"
  /\ ~HeldByRemove
  /\ IF WorkflowRowMissing(StoredWorkflow)
     THEN Abort(t, "NotFound")
     ELSE tx' = [tx EXCEPT ![t].pc = "commit"]
  /\ TablesAfter(t)
  /\ UNCHANGED <<sessions, txSeq, spent, loaded, published, apiCall, rm>>
  /\ UNCHANGED <<svars, rvars, evars, wvars>>

\* the transaction commits: its deletes and inserts reach the tables
Commit(t) ==
  /\ tx[t].pc = "commit"
  /\ nodeTbl' = (nodeTbl \ tx[t].delNodes) \cup tx[t].insNodes
  /\ connTbl' = (connTbl \ tx[t].delConns) \cup tx[t].insConns
  /\ wfTbl' = {IF w.id = StoredWorkflow
               THEN [w EXCEPT !.updatedAt = UpdatedAtAfterWrite(@)]
               ELSE w : w \in wfTbl}
  /\ lastCommit' = [made |-> TRUE, seq |-> tx[t].ver, session |-> t,
                    payload |-> tx[t].payload]
  /\ committed' = committed \cup {tx[t].payload}
  /\ tx' = [tx EXCEPT ![t] = IdleTx]
  /\ UNCHANGED <<sessions, txSeq, spent, loaded, published, apiCall, rm>>
  /\ UNCHANGED <<svars, rvars, evars, wvars>>

\* getOne is called by the owner: the committed rows, as nodes and edges
GetOne ==
  /\ loaded' = [done |-> TRUE, after |-> lastCommit.seq,
                graph |-> getOne(StoredWorkflow)]
  /\ loaded' # loaded
  /\ UNCHANGED <<nodeTbl, connTbl, sessions, tx, txSeq, spent, lastCommit,
                 committed, wfTbl, published, apiCall, rm>>
  /\ UNCHANGED <<svars, rvars, evars, wvars>>

\* the tables after create: the workflow has its INITIAL node
StoreCreated ==
  /\ nodeTbl = {InitialNode} \cup ForeignNodes
  /\ connTbl = {}
  /\ tx = [t \in sessions |-> IdleTx]
  /\ txSeq = 0
  /\ spent = 0
  /\ lastCommit = NoCommit
  /\ committed = {}
  /\ loaded = NotLoaded
  /\ wfTbl = WorkflowRows
  /\ NothingCalled

OnlyTheStore ==
  /\ sNodes = <<>>
  /\ sConns = <<>>
  /\ sPhase = "unused"
  /\ sResult = NoResult
  /\ Alone
  /\ EditorUnused
  /\ dbNodes = <<>>
  /\ dbConns = <<>>
  /\ event = [workflowId |-> Undefined, hasInitialData |-> FALSE,
              initialData |-> EmptyContext]
  /\ RunnerIdle
  /\ keying = "name"
  /\ ExecutorsIdle
  /\ Untouched

\* one client saving again and again
InitSave ==
  /\ OnlyTheStore
  /\ sessions = {1}
  /\ StoreCreated

NextSave ==
  \/ \E t \in sessions : BeginSave(t)
  \/ \E t \in sessions : DeleteNodes(t)
  \/ \E t \in sessions : InsertNodes(t)
  \/ \E t \in sessions : InsertConns(t)
  \/ \E t \in sessions : Touch(t)
  \/ \E t \in sessions : Commit(t)
  \/ GetOne

SpecSave == InitSave /\ [][NextSave]_vars

\* two clients saving at the same time
InitRace ==
  /\ OnlyTheStore
  /\ sessions = {1, 2}
  /\ StoreCreated

NextRace ==
  \/ \E t \in sessions : BeginSave(t)
  \/ \E t \in sessions : DeleteNodes(t)
  \/ \E t \in sessions : DeleteResume(t)
  \/ \E t \in sessions : InsertNodes(t)
  \/ \E t \in sessions : InsertConns(t)
  \/ \E t \in sessions : Touch(t)
  \/ \E t \in sessions : Commit(t)
  \/ GetOne

SpecRace == InitRace /\ [][NextRace]_vars

(***************************************************************************)
(* The procedures getOne, update, remove and execute called by the owner   *)
(* and by another user, a save running while the workflow is removed.      *)
(* remove is one delete statement: it locks the workflow row, then the     *)
(* cascade deletes the nodes and the connections and the statement         *)
(* commits.  It waits for a transaction that holds a reference to the row  *)
(* (a row inserted with its foreign key, updatedAt written) or a lock on a *)
(* node; two statements that wait for each other are a deadlock, which the *)
(* database ends by failing one of them.                                   *)
(***************************************************************************)
ExecuteEvent == "workflow/execute.workflow"

\* one call of a procedure that submits no rows
CallMade ==
  /\ spent + 1 <= Budget
  /\ spent' = spent + 1

\* getOne called by any user: findUniqueOrThrow({where: {id, userId}})
GetOneBy(caller) ==
  /\ CallMade
  /\ IF Owns(caller, StoredWorkflow)
     THEN /\ loaded' = [done |-> TRUE, after |-> lastCommit.seq,
                        graph |-> getOne(StoredWorkflow)]
          /\ apiCall' = Called("getOne", caller, "")
     ELSE /\ apiCall' = Called("getOne", caller, "NotFound")
          /\ UNCHANGED loaded
  /\ UnchangedTables
  /\ UNCHANGED <<sessions, tx, txSeq, published, rm>>
  /\ UNCHANGED <<svars, rvars, evars, wvars>>

\* execute called by any user: findUniqueOrThrow({where: {id, userId}}),
\* then inngest.send
Execute(caller) ==
  /\ CallMade
  /\ IF Owns(caller, StoredWorkflow)
     THEN /\ published' = Append(published, [name |-> ExecuteEvent,
                                             workflowId |-> StoredWorkflow])
          /\ apiCall' = Called("execute", caller, "")
     ELSE /\ apiCall' = Called("execute", caller, "NotFound")
          /\ UNCHANGED published
  /\ UnchangedTables
  /\ UNCHANGED <<sessions, tx, txSeq, loaded, rm>>
  /\ UNCHANGED <<svars, rvars, evars, wvars>>

\* remove called by any user: prisma.workflow.delete({where: {id, userId}})
\* finds no record, or locks the row once no transaction refers to it
RemoveBegin(caller) ==
  /\ rm.pc = "idle"
  /\ CallMade
  /\ IF Owns(caller, StoredWorkflow)
     THEN /\ \A t \in sessions : /\ tx[t].insNodes = {}
                                 /\ tx[t].insConns = {}
                                 /\ tx[t].pc # "commit"
          /\ rm' = [pc |-> "cascade", error |-> ""]
          /\ apiCall' = Called("remove", caller, "")
     ELSE /\ apiCall' = Called("remove", caller, "NotFound")
          /\ UNCHANGED rm
  /\ UnchangedTables
  /\ UNCHANGED <<sessions, tx, txSeq, loaded, published>>
  /\ UNCHANGED <<svars, rvars, evars, wvars>>

\* the cascade of remove, once no transaction holds a lock on a node of
\* the workflow: the row, its nodes and its connections are gone
RemoveFinish ==
  /\ rm.pc = "cascade"
  /\ LET nodes == CascadeOfWorkflow(StoredWorkflow)
     IN /\ \A t \in sessions : tx[t].delNodes \cap nodes = {}
        /\ nodeTbl' = nodeTbl \ nodes
        /\ connTbl' = connTbl \ (ConnsOfWorkflow(StoredWorkflow) \cup Cascade(nodes))
  /\ wfTbl' = {w \in wfTbl : w.id # StoredWorkflow}
  /\ rm' = IdleRemove
  /\ UNCHANGED <<sessions, tx, txSeq, spent, lastCommit, committed, loaded,
                 published, apiCall>>
  /\ UNCHANGED <<svars, rvars, evars, wvars>>

\* the next statement of t needs the workflow row
NeedsWorkflowRow(t) ==
  \/ tx[t].pc = "nodes" /\ tx[t].payload.nodes # {}
  \/ tx[t].pc = "conns" /\ tx[t].payload.edges # {}
  \/ tx[t].pc = "touch"

\* remove waits for the nodes t has deleted and t waits for the row remove
\* has deleted: the database fails one of the two
Deadlock(t) ==
  /\ HeldByRemove
  /\ tx[t].delNodes \cap CascadeOfWorkflow(StoredWorkflow) # {}
  /\ NeedsWorkflowRow(t)
  /\ \/ /\ Abort(t, "Deadlock")
        /\ UNCHANGED rm
     \/ /\ rm' = [pc |-> "idle", error |-> "Deadlock"]
        /\ UNCHANGED tx
  /\ TablesAfter(t)
  /\ UNCHANGED <<sessions, txSeq, spent, loaded, published, apiCall>>
  /\ UNCHANGED <<svars, rvars, evars, wvars>>

InitApi ==
  /\ OnlyTheStore
  /\ sessions = {3}
  /\ StoreCreated

NextApi ==
  \/ \E t \in sessions : BeginSave(t)
  \/ \E t \in sessions : DeleteNodes(t)
  \/ \E t \in sessions : InsertNodes(t)
  \/ \E t \in sessions : InsertConns(t)
  \/ \E t \in sessions : Touch(t)
  \/ \E t \in sessions : Commit(t)
  \/ \E t \in sessions : Deadlock(t)
  \/ \E caller \in Users : GetOneBy(caller)
  \/ \E caller \in Users : Execute(caller)
  \/ \E caller \in Users : RemoveBegin(caller)
  \/ RemoveFinish

SpecApi == InitApi /\ [][NextApi]_vars

(***************************************************************************)
(* The editor: the node selector adds nodes to the canvas of a workflow    *)
(* that was just created.                                                  *)
(***************************************************************************)
\* triggerNodes and executionNodes: the types the selector offers
SelectorOptions == {"MANUAL_TRIGGER", "HTTP_REQUEST"}

\* (Math.random() - 0.5) * 200: the ends of the range of the offset
Offsets == {-100, 99}

DuplicateTriggerMessage == "Only one manual trigger is allowed per workflow"

\* a selector that never finds a manual trigger on the canvas
hasManualTriggerUnchecked(nodes) == FALSE

\* nodes.some((node) => node.type === NodeType.MANUAL_TRIGGER)
hasManualTrigger(nodes) ==
  \E i \in 1..Len(nodes) : nodes[i].type = "MANUAL_TRIGGER"

\* nodes.some((node) => node.type === NodeType.INITIAL)
hasInitialTrigger(nodes) ==
  \E i \in 1..Len(nodes) : nodes[i].type = "INITIAL"

\* the updater of setNodes: the placeholder is replaced, otherwise the new
\* node is appended
withNewNode(nodes, newNode) ==
  IF hasInitialTrigger(nodes) THEN <<newNode>> ELSE Append(nodes, newNode)

\* the canvas of a workflow after create: the INITIAL node alone
InitEditor ==
  /\ sNodes = <<>>
  /\ sConns = <<>>
  /\ sPhase = "unused"
  /\ sResult = NoResult
  /\ Alone
  /\ cNodes = <<[id |-> 0, type |-> "INITIAL", position |-> [x |-> 0, y |-> 0]]>>
  /\ cOpen = FALSE
  /\ cToast = ""
  /\ cMade = 0
  /\ cChoice = ""
  /\ dbNodes = <<>>
  /\ dbConns = <<>>
  /\ event = [workflowId |-> Undefined, hasInitialData |-> FALSE,
              initialData |-> EmptyContext]
  /\ RunnerIdle
  /\ keying = "name"
  /\ ExecutorsIdle
  /\ Untouched
  /\ StoreUnused

\* the add button opens the selector sheet
OpenSelector ==
  /\ ~cOpen
  /\ cMade < MaxChoices
  /\ cOpen' = TRUE
  /\ UNCHANGED <<cNodes, cToast, cMade, cChoice>>
  /\ UNCHANGED <<sNodes, sConns, sPhase, sResult>>
  /\ UNCHANGED pvars
  /\ UNCHANGED <<rvars, evars, wvars, dvars>>

\* handleNodeSelect(selection): a second manual trigger is refused with a
\* toast and the sheet stays open; otherwise the node is created with a
\* fresh id at a random offset, the sheet closes
HandleNodeSelect(selection) ==
  /\ cOpen
  /\ cMade < MaxChoices
  /\ cMade' = cMade + 1
  /\ cChoice' = selection
  /\ IF selection = "MANUAL_TRIGGER" /\ hasManualTrigger(cNodes)
     THEN /\ cToast' = DuplicateTriggerMessage
          /\ UNCHANGED <<cNodes, cOpen>>
     ELSE /\ \E dx \in Offsets, dy \in Offsets :
                cNodes' = withNewNode(cNodes, [id |-> cMade + 1,
                                               type |-> selection,
                                               position |-> [x |-> dx, y |-> dy]])
          /\ cOpen' = FALSE
          /\ UNCHANGED cToast
  /\ UNCHANGED <<sNodes, sConns, sPhase, sResult>>
  /\ UNCHANGED pvars
  /\ UNCHANGED <<rvars, evars, wvars, dvars>>

NextEditor ==
  \/ OpenSelector
  \/ \E selection \in SelectorOptions : HandleNodeSelect(selection)

SpecEditor == InitEditor /\ [][NextEditor]_vars

(***************************************************************************)
(* Graph notions the properties are stated with (independent of the sort). *)
(***************************************************************************)
Succ(S, conns) ==
  {conns[i].toNodeId : i \in {j \in 1..Len(conns) : conns[j].fromNodeId \in S}}

RECURSIVE ReachFrom(_, _)
\* all identifiers reachable from the set S by zero or more connections
ReachFrom(S, conns) ==
  LET n == S \cup Succ(S, conns)
  IN IF n = S THEN S ELSE ReachFrom(n, conns)

HasCycle(conns) ==
  \E i \in 1..Len(conns) :
     conns[i].fromNodeId \in ReachFrom({conns[i].toNodeId}, conns)

Endpoints(conns) ==
  {conns[i].fromNodeId : i \in 1..Len(conns)} \cup {conns[i].toNodeId : i \in 1..Len(conns)}

IdsOf(nodes) == [i \in 1..Len(nodes) |-> nodes[i].id]

IndexOf(id, nodes) == CHOOSE i \in 1..Len(nodes) : nodes[i].id = id

IsPermutationOf(out, inp) ==
  /\ Len(out) = Len(inp)
  /\ Range(out) = Range(inp)

Isolated(nodes, conns) == Range(IdsOf(nodes)) \ Endpoints(conns)

(***************************************************************************)
(* Properties of the scheduler.                                            *)
(***************************************************************************)
\* C1: on an acyclic input whose connection endpoints are all input nodes,
\* the returned sequence places the source of every connection at a strictly
\* smaller index than its target.
C1_OrderRespectsEdges ==
  (/\ sPhase = "returned"
   /\ sResult.ok
   /\ ~HasCycle(sConns)
   /\ Endpoints(sConns) \subseteq Range(IdsOf(sNodes)))
  => \A i \in 1..Len(sConns) :
        /\ sConns[i].fromNodeId \in Range(IdsOf(sResult.nodes))
        /\ sConns[i].toNodeId \in Range(IdsOf(sResult.nodes))
        /\ IndexOf(sConns[i].fromNodeId, sResult.nodes)
             < IndexOf(sConns[i].toNodeId, sResult.nodes)

\* a sequence was returned for a chain of two connections over three nodes
C1_Witness ==
  /\ sPhase = "returned"
  /\ sResult.ok
  /\ Len(sNodes) = 3
  /\ IdsOf(sNodes) = <<"c", "b", "a">>
  /\ sConns = <<Conn("b", "c"), Conn("a", "b")>>
  /\ IdsOf(sResult.nodes) = <<"a", "b", "c">>

\* C2: on every acyclic input the sort returns a sequence that holds every
\* input node exactly once and nothing else.
C2_OrderIsPermutation ==
  (sPhase = "returned" /\ ~HasCycle(sConns))
  => /\ sResult.ok
     /\ IsPermutationOf(sResult.nodes, sNodes)

\* C3: on an acyclic input with at least one connection, a node that occurs
\* in no connection is in the output and the sort does not fail.
C3_IsolatedNodeIncluded ==
  (/\ sPhase = "returned"
   /\ ~HasCycle(sConns)
   /\ Len(sConns) >= 1
   /\ Isolated(sNodes, sConns) # {})
  => /\ sResult.ok
     /\ Isolated(sNodes, sConns) \subseteq Range(IdsOf(sResult.nodes))

\* C5: with no connections the sort returns exactly the input node sequence.
C5_EmptyConnectionsFidelity ==
  (sPhase = "returned" /\ sConns = <<>>)
  => /\ sResult.ok
     /\ sResult.nodes = sNodes

\* the sort has returned for three unconnected nodes
C5_Witness ==
  /\ sPhase = "returned"
  /\ sConns = <<>>
  /\ Len(sNodes) = 3
  /\ sResult.nodes = sNodes

(***************************************************************************)
(* Properties of the runner.                                               *)
(***************************************************************************)
\* the context the node executors produce when each is called in turn with
\* the context its predecessor returned
RECURSIVE FoldExecutors(_, _)
FoldExecutors(nodes, ctx) ==
  IF nodes = <<>> THEN Returned(ctx)
  ELSE LET r == CallExecutor(getExecutor(nodes[1].type).executor, nodes[1], ctx)
       IN IF r.threw THEN r ELSE FoldExecutors(Tail(nodes), r.context)

SeedContext == IF event.hasInitialData THEN event.initialData ELSE EmptyContext

\* position of an identifier in a sequence of identifiers
PosOf(id, ids) == CHOOSE i \in 1..Len(ids) : ids[i] = id

\* C4: when the graph the prepare step read has a cycle, the step fails with
\* the cycle error, nothing is checkpointed, and in that attempt and in every
\* retry the loop over the nodes is never entered: no executor is looked up
\* or invoked and nothing is returned.
C4_CycleRefuses ==
  (prepareRuns > 0 /\ HasCycle(lastRead.connections))
  => /\ failure = PlainError(CycleMessage)
     /\ ~memo.done
     /\ pc \in {"invoke", "prepare", "failed"}
     /\ lookups = <<>>
     /\ invoked = <<>>
     /\ ~result.returned

\* the workflow x -> y, y -> x has failed after all its retries
C4_Witness ==
  /\ pc = "failed"
  /\ lastRead.connections = <<Conn("a", "b"), Conn("b", "a")>>
  /\ IdsOf(lastRead.nodes) = <<"a", "b">>
  /\ prepareRuns = MaxRetries + 1
  /\ failure.message = CycleMessage

\* C6: a successful execution returns {workflowId, context} with context the
\* fold of the executors over the sorted nodes, starting from initialData
\* (or {}).
C6_ResultIsFold ==
  pc = "done"
  => /\ result.returned
     /\ result.workflowId = event.workflowId
     /\ ~FoldExecutors(sortedNodes, SeedContext).threw
     /\ result.context = FoldExecutors(sortedNodes, SeedContext).context

TurnsRespectConnections ==
  /\ Len(lookups) <= Len(sortedNodes)
  /\ lookups = SubSeq(IdsOf(sortedNodes), 1, Len(lookups))
  /\ \A i \in 1..Len(lastRead.connections) :
        LET u == lastRead.connections[i].fromNodeId
            v == lastRead.connections[i].toNodeId
        IN ({u, v} \subseteq Range(IdsOf(sortedNodes)) /\ v \in Range(lookups))
           => (u \in Range(lookups) /\ PosOf(u, lookups) < PosOf(v, lookups))

\* C8: the cycle error is non-retriable: once the scheduler has detected a
\* cycle the execution is failed, no retry is spent and the prepare step has
\* run once.
C8_CycleNotRetried ==
  (HasCycle(lastRead.connections) /\ failure.message = CycleMessage)
  => /\ pc = "failed"
     /\ failure.nonRetriable
     /\ attempt = 0
     /\ prepareRuns = 1

\* C9: an event without workflowId is rejected with a non-retriable error
\* before any step: nothing is loaded, no executor is looked up or invoked,
\* nothing is returned and no retry is spent.
C9_MissingWorkflowIdRejected ==
  event.workflowId = Undefined
  => /\ pc \in {"invoke", "failed"}
     /\ pc = "failed" => failure = NonRetriableError("Workflow ID is missing")
     /\ attempt = 0
     /\ prepareRuns = 0
     /\ lastRead.nodes = <<>>
     /\ ~memo.done
     /\ lookups = <<>>
     /\ invoked = <<>>
     /\ ~result.returned

\* the event without workflowId has been rejected
C9_Witness ==
  /\ event.workflowId = Undefined
  /\ pc = "failed"
  /\ failure.nonRetriable
  /\ Len(dbNodes) > 0

IsUnconfiguredHttp(node) == node.type = "HTTP_REQUEST" /\ NoEndpoint(node.data)

\* C10: an execution whose sorted nodes hold an HTTP_REQUEST node without
\* endpoint does not succeed: it fails with the non-retriable "No endpoint
\* configured" error, no node after that one gets its turn, no retry.
C10_NoEndpointFails ==
  (memo.done /\ \E i \in 1..Len(memo.value) : IsUnconfiguredHttp(memo.value[i]))
  => LET first == CHOOSE i \in 1..Len(memo.value) :
                     /\ IsUnconfiguredHttp(memo.value[i])
                     /\ \A j \in 1..(i - 1) : ~IsUnconfiguredHttp(memo.value[j])
     IN /\ pc # "done"
        /\ ~result.returned
        /\ Len(lookups) <= first
        /\ pc = "failed" => failure = NonRetriableError(NoEndpointMessage)
        /\ attempt = 0

(***************************************************************************)
(* Properties of the executors under the runner's loop.                    *)
(***************************************************************************)
\* a logged request met a network error or a response with status >= 400
RequestFailed(q) == q.networkError \/ q.status >= 400

\* the step being taken issues a request, and that request fails
RequestFailsNow ==
  /\ Len(requests') = Len(requests) + 1
  /\ RequestFailed(requests'[Len(requests')])

\* C11: a step in which the request of an HTTP_REQUEST node meets a network
\* error or a status >= 400 ends in an error that is not tagged
\* non-retriable; nothing is checkpointed, the context gets no httpResponse,
\* the executor does not return, and the transport enters the handler again
\* while retries are left.
C11_FailedRequestIsRetriable ==
  [][RequestFailsNow
     => /\ failure'.message \in {"fetch failed", "Request failed"}
        /\ ~failure'.nonRetriable
        /\ stepMemo' = stepMemo
        /\ context' = context
        /\ lastCall' = lastCall
        /\ IF attempt < MaxRetries
           THEN pc' = "invoke" /\ attempt' = attempt + 1
           ELSE pc' = "failed"]_vars

\* the first request of the execution met status 503 and the execution is
\* about to be retried with nothing checkpointed
C11_Witness ==
  /\ pc = "invoke"
  /\ attempt = 1
  /\ Len(requests) = 1
  /\ requests[1].status = 503
  /\ failure = PlainError("Request failed")
  /\ stepMemo = NoCheckpoints
  /\ "httpResponse" \notin DOMAIN context

\* C12: whenever an executor has returned, every key of the context it was
\* called with is a key of the context it returned.
C12_ContextMonotone ==
  lastCall.made => DOMAIN lastCall.input \subseteq DOMAIN lastCall.output

IsHttp(node) == node.type = "HTTP_REQUEST"

\* the HTTP_REQUEST node that comes last in a node sequence
LastHttp(nodes) ==
  nodes[CHOOSE i \in 1..Len(nodes) :
          /\ IsHttp(nodes[i])
          /\ \A j \in (i + 1)..Len(nodes) : ~IsHttp(nodes[j])]

\* C13: after a successful execution of a workflow with two HTTP_REQUEST
\* nodes, httpResponse is the response to the request of the later node.
C13_LaterResponseWins ==
  (/\ pc = "done"
   /\ Cardinality({i \in 1..Len(sortedNodes) : IsHttp(sortedNodes[i])}) >= 2)
  => /\ "httpResponse" \in DOMAIN result.context
     /\ result.context.httpResponse.data
          = responseData(HttpFixture(LastHttp(sortedNodes).data.endpoint)).value

\* C14: once a request of a node has been answered (its step is
\* checkpointed) no later request of that node is issued in any attempt, and
\* an executor returns the context checkpointed for its step, which the loop
\* goes on with.
C14_CheckpointedRequestOnce ==
  /\ \A i \in 1..Len(requests) : \A j \in (i + 1)..Len(requests) :
        ~RequestFailed(requests[i]) => requests[j].nodeId # requests[i].nodeId
  /\ lastCall.made
     => /\ lastCall.step \in DOMAIN stepMemo
        /\ lastCall.output = stepMemo[lastCall.step]
  /\ (pc = "loop" /\ idx > 1 /\ lastCall.nodeId = sortedNodes[idx - 1].id)
     => context = lastCall.output

\* h1 was answered, h2 failed once and was answered in the retry; the retry
\* did not ask h1 again
C14_Witness ==
  /\ pc = "done"
  /\ attempt = 1
  /\ Len(requests) = 3
  /\ requests[1].nodeId = "h1" /\ ~RequestFailed(requests[1])
  /\ requests[2].nodeId = "h2" /\ RequestFailed(requests[2])
  /\ requests[3].nodeId = "h2" /\ ~RequestFailed(requests[3])

\* C15: once the prepare step is checkpointed, no step of the execution
\* runs its thunk again, reads the graph again or changes the checkpoint,
\* whatever is saved or deleted meanwhile; every run of the handler works on
\* the checkpointed list and every loop turn takes its node from that list.
C15_CheckpointedOrderKept ==
  [][memo.done
     => /\ memo' = memo
        /\ prepareRuns' = prepareRuns
        /\ lastRead' = lastRead
        /\ memo.value = topologicalSort(lastRead.nodes, lastRead.connections).nodes
        /\ pc' \in {"loop", "done"} => sortedNodes' = memo.value
        /\ lookups' # lookups
           => lookups' = Append(lookups, memo.value[idx].id)]_vars

\* an execution has finished on the two nodes it read although a request
\* failed after the checkpoint and the workflow was saved meanwhile
C15_Witness ==
  /\ pc = "done"
  /\ attempt >= 1
  /\ commits >= 1
  /\ dbExists
  /\ Len(memo.value) = 2
  /\ dbNodes # lastRead.nodes
  /\ sortedNodes = lastRead.nodes
  /\ prepareRuns = 1

\* the same with the workflow deleted meanwhile
C15_WitnessDeleted ==
  /\ pc = "done"
  /\ ~dbExists
  /\ Len(sortedNodes) = 2
  /\ sortedNodes = lastRead.nodes

NoExecutorMessage == "No executor found for node type"

HttpMethods == {"GET", "POST", "PUT", "PATCH", "DELETE"}

HasUnknownMethod(node) ==
  /\ node.type = "HTTP_REQUEST"
  /\ ~NoEndpoint(node.data)
  /\ MethodOf(node.data) \notin HttpMethods

\* C26: no outbound request is ever issued with a method outside GET, POST,
\* PUT, PATCH, DELETE, and the loop never gets past an HTTP_REQUEST node
\* with such a method.
C26_UnknownMethodRejected ==
  /\ \A i \in 1..Len(requests) : requests[i].method \in HttpMethods
  /\ \A i \in 1..Len(sortedNodes) :
        HasUnknownMethod(sortedNodes[i])
        => ~(pc \in {"loop", "done"} /\ idx > i)

\* this step issued a request that was answered with a status 200-299
RequestAnsweredNow ==
  /\ Len(requests') = Len(requests) + 1
  /\ ~requests'[Len(requests')].networkError
  /\ requests'[Len(requests')].status \in 200..299

\* out is context with httpResponse set to exactly status, statusText and
\* data of the answer q, data being the parsed body when asJson holds and
\* the body as it is otherwise
IsContextWithResponse(out, q, asJson) ==
  /\ DOMAIN out = DOMAIN context \cup {"httpResponse"}
  /\ \A k \in DOMAIN context \ {"httpResponse"} : out[k] = context[k]
  /\ DOMAIN out.httpResponse = {"status", "statusText", "data"}
  /\ out.httpResponse.status = q.status
  /\ out.httpResponse.statusText = q.statusText
  /\ out.httpResponse.data = IF asJson THEN responseJson(q.body).value
                             ELSE q.body

\* C27 as stated: whenever a request is answered with a status 200-299 the
\* step returns the input context with httpResponse = {status, statusText,
\* data}, data parsed when the Content-Type begins with application/json
\* and the raw body otherwise.
C27_DataByPrefix ==
  [][RequestAnsweredNow
     => LET q == requests'[Len(requests')]
        IN \E id \in DOMAIN stepMemo' \ DOMAIN stepMemo :
              IsContextWithResponse(stepMemo'[id], q,
                                    BeginsWith(q.contentType, JsonMime))]_vars

\* the body of the answer is JSON text wherever its header says so
Decodes(q) == Includes(q.contentType, JsonMime) => ~responseJson(q.body).threw

\* C27: whenever a request is answered with a status 200-299 and a body
\* that decodes, the step returns the input context with httpResponse =
\* {status, statusText, data} and every other key as it was, data parsed
\* when the Content-Type contains application/json and the raw body
\* otherwise.
C27_DataByContains ==
  [][(RequestAnsweredNow /\ Decodes(requests'[Len(requests')]))
     => LET q == requests'[Len(requests')]
        IN \E id \in DOMAIN stepMemo' \ DOMAIN stepMemo :
              IsContextWithResponse(stepMemo'[id], q,
                                    Includes(q.contentType, JsonMime))]_vars

\* a request was answered with the MIME type after other text in the
\* header, and the parsed body is checkpointed next to the seed of the
\* context
C27_Witness ==
  /\ \E i \in 1..Len(requests) :
        requests[i].contentType = TextProfileType /\ requests[i].status = 200
  /\ \E id \in DOMAIN stepMemo :
        /\ DOMAIN stepMemo[id] = {"seed", "httpResponse"}
        /\ stepMemo[id].httpResponse.data = <<"echo", EndpointProfile>>

(***************************************************************************)
(* The execution and the stored workflow.                                  *)
(***************************************************************************)
\* C24: no step of an execution, whether it ends in success, in failure or
\* in a retry, changes the stored workflow: the row and its updatedAt, the
\* nodes and the connections are after the step what they were before.
C24_ExecutionWritesNothing ==
  [][/\ dbExists' = dbExists
     /\ dbUpdatedAt' = dbUpdatedAt
     /\ dbNodes' = dbNodes
     /\ dbConns' = dbConns]_vars

\* an execution has returned after a retry, with a request answered, and
\* the stored workflow is as it was
C24_Witness ==
  /\ pc = "done"
  /\ attempt > 0
  /\ prepareRuns > 0
  /\ \E i \in 1..Len(requests) : requests[i].status = 200
  /\ dbUpdatedAt = 0

(***************************************************************************)
(* Properties of the store.                                                *)
(***************************************************************************)
\* a stored row without the mark of the transaction that wrote it
NodeFields(r) ==
  [id |-> r.id, workflowId |-> r.workflowId, name |-> r.name, type |-> r.type,
   position |-> r.position, data |-> r.data]
ConnFields(c) ==
  [workflowId |-> c.workflowId, fromNodeId |-> c.fromNodeId,
   toNodeId |-> c.toNodeId, fromOutput |-> c.fromOutput, toInput |-> c.toInput]

StoredNodes == {r \in nodeTbl : r.workflowId = StoredWorkflow}
StoredConns == {c \in connTbl : c.workflowId = StoredWorkflow}

\* C18: once a save has committed, the stored nodes of the workflow are the
\* rows of the submitted nodes and its stored connections the rows of the
\* submitted edges, all of them written by that save.
C18_SaveReplacesGraph ==
  lastCommit.made
  => /\ {NodeFields(r) : r \in StoredNodes}
          = {NodeFields(nodeRow(StoredWorkflow, n, 0)) : n \in lastCommit.payload.nodes}
     /\ {ConnFields(c) : c \in StoredConns}
          = {ConnFields(edgeRow(StoredWorkflow, e, 0)) : e \in lastCommit.payload.edges}
     /\ \A r \in StoredNodes : r.ver = lastCommit.seq
     /\ \A c \in StoredConns : c.ver = lastCommit.seq

\* getOne was called after the save that committed last
LoadedAfterSave ==
  /\ loaded.done
  /\ lastCommit.made
  /\ loaded.after = lastCommit.seq

NodeReturned(n) ==
  [id |-> n.id, type |-> n.type, position |-> n.position, hasData |-> TRUE,
   data |-> IF n.hasData THEN n.data ELSE NoData]
EdgeReturned(e) ==
  [source |-> e.source, target |-> e.target,
   sourceHandle |-> IF e.sourceHandle \in {NullValue, Undefined, ""}
                    THEN "main" ELSE e.sourceHandle,
   targetHandle |-> IF e.targetHandle \in {NullValue, Undefined, ""}
                    THEN "main" ELSE e.targetHandle]

BetweenForeignNodes(edge) == {edge.source, edge.target} \subseteq {"x", "y"}

GraphOf(p) ==
  [nodes |-> {NodeReturned(n) : n \in p.nodes},
   edges |-> {EdgeReturned(e) : e \in p.edges}]

InitialGraph == [nodes |-> {nodeView(InitialNode)}, edges |-> {}]

\* C20: with two clients saving at the same time the committed graph is at
\* every moment the graph of create or the graph of one committed payload,
\* and so is every graph a reader has loaded.
C20_SavesSerialized ==
  LET whole == {InitialGraph} \cup {GraphOf(p) : p \in committed}
  IN /\ getOne(StoredWorkflow) \in whole
     /\ loaded.done => loaded.graph \in whole

\* C22: every stored connection has both endpoints among the stored nodes
\* of its own workflow, and no two stored connections have the same
\* (fromNodeId, toNodeId, fromOutput, toInput).
C22_ConnectionsWithinWorkflow ==
  /\ \A c \in connTbl : \A id \in {c.fromNodeId, c.toNodeId} :
        \E r \in nodeTbl : r.id = id /\ r.workflowId = c.workflowId
  /\ \A c \in connTbl : \A d \in connTbl :
        UniqueKey(c) = UniqueKey(d) => c = d

\* a procedure is called in this step
CalledNow == spent' > spent

\* the user who calls in this step is not the user of the workflow's row
CallerIsNoOwner ==
  \A w \in wfTbl : w.id = StoredWorkflow => w.userId # apiCall'.caller

\* C21: a call of getOne, update, remove or execute by a user who does not
\* own the workflow fails with NotFound, changes no row of the tables,
\* begins no transaction and no delete, loads nothing and publishes no
\* event.
C21_OwnershipEnforced ==
  [][(CalledNow /\ CallerIsNoOwner)
     => /\ apiCall'.error = "NotFound"
        /\ nodeTbl' = nodeTbl
        /\ connTbl' = connTbl
        /\ wfTbl' = wfTbl
        /\ published' = published
        /\ loaded' = loaded
        /\ rm' = rm
        /\ txSeq' = txSeq
        /\ \A t \in sessions : tx'[t].pc = tx[t].pc]_vars

\* the other user has called remove on the saved workflow and was refused
C21_Witness ==
  /\ apiCall = Called("remove", "bob", "NotFound")
  /\ lastCommit.made
  /\ ~WorkflowRowMissing(StoredWorkflow)
  /\ StoredNodes # {}

\* C23: at every moment, also while a save and a remove of the workflow
\* overlap, every stored node and every stored connection belongs to a
\* workflow that exists.
C23_NoRowWithoutWorkflow ==
  /\ \A r \in nodeTbl : ~WorkflowRowMissing(r.workflowId)
  /\ \A c \in connTbl : ~WorkflowRowMissing(c.workflowId)

\* the workflow was removed after the ownership check of a save and before
\* its transaction wrote: the save failed on the missing row
C23_Witness ==
  /\ WorkflowRowMissing(StoredWorkflow)
  /\ \E t \in sessions :
        /\ tx[t].pc = "idle"
        /\ tx[t].error \in {"ForeignKeyConstraint", "NotFound"}
        /\ apiCall = Called("remove", Owner, "")

\* C28: the step at which a save fails inside its transaction changes no
\* row of the workflow, its nodes or its connections and not updatedAt, and
\* the only step of a save that changes any of them is its commit.
C28_FailedSaveChangesNothing ==
  [][/\ \A t \in sessions :
          (tx[t].pc \notin {"idle", "commit"} /\ tx'[t].pc = "idle")
          => /\ tx'[t].error # ""
             /\ nodeTbl' = nodeTbl
             /\ connTbl' = connTbl
             /\ wfTbl' = wfTbl
     /\ (nodeTbl' # nodeTbl \/ connTbl' # connTbl \/ wfTbl' # wfTbl)
        => \E t \in sessions : tx[t].pc = "commit" /\ tx'[t] = IdleTx]_vars

\* after a committed save, a save with a duplicated edge has failed and
\* the nodes of the committed save are still stored
C28_Witness ==
  /\ lastCommit.made
  /\ \E t \in sessions :
        /\ tx[t].pc = "idle"
        /\ tx[t].error \in {"UniqueConstraint", "ForeignKeyConstraint",
                            "Validation"}
  /\ StoredNodes # {}
  /\ \A r \in StoredNodes : r.ver = lastCommit.seq
  /\ \E w \in wfTbl : w.id = StoredWorkflow /\ w.updatedAt = 1

(***************************************************************************)
(* Properties of the editor.                                               *)
(***************************************************************************)
ManualTriggersOn(nodes) ==
  {i \in 1..Len(nodes) : nodes[i].type = "MANUAL_TRIGGER"}

\* C29: the canvas never holds more than one MANUAL_TRIGGER node; a choice
\* of the manual trigger while one is on the canvas leaves the canvas as it
\* is; a choice made while the INITIAL placeholder is on the canvas leaves
\* exactly the chosen node on it.
C29_OneManualTrigger ==
  [][/\ Cardinality(ManualTriggersOn(cNodes')) <= 1
     /\ (cMade' = cMade + 1 /\ cChoice' = "MANUAL_TRIGGER"
         /\ ManualTriggersOn(cNodes) # {})
        => cNodes' = cNodes
     /\ (cMade' = cMade + 1
         /\ \E i \in 1..Len(cNodes) : cNodes[i].type = "INITIAL")
        => /\ Len(cNodes') = 1
           /\ cNodes'[1].type = cChoice'
           /\ cNodes'[1].id \notin {cNodes[i].id : i \in 1..Len(cNodes)}]_vars

\* the manual trigger was chosen a second time and refused, with an HTTP
\* request and the first manual trigger on the canvas
C29_Witness ==
  /\ cToast = DuplicateTriggerMessage
  /\ cChoice = "MANUAL_TRIGGER"
  /\ Len(cNodes) = 2
  /\ Cardinality(ManualTriggersOn(cNodes)) = 1
  /\ cOpen

(***************************************************************************)
(* Termination of an execution under a fair transport.                     *)
(***************************************************************************)
Terminated == pc \in {"done", "failed"}

\* every node type of the stored workflow has an executor
AllRegistered(nodes) ==
  \A i \in 1..Len(nodes) : ~getExecutor(nodes[i].type).threw

\* no executor of the stored workflow refuses its node's data
AllConfigured(nodes) ==
  \A i \in 1..Len(nodes) :
     LET found == getExecutor(nodes[i].type)
     IN ~found.threw => PrecheckOf(found.executor, nodes[i].data) = NoError

\* an execution that has not started, of an acyclic workflow whose node
\* types are all registered
Startable ==
  /\ pc = "invoke"
  /\ attempt = 0
  /\ ~memo.done
  /\ ~HasCycle(dbConns)
  /\ AllRegistered(dbNodes)

\* a retriable failure recurred until the transport's retries were spent
RetriesExhausted ==
  /\ pc = "failed"
  /\ ~failure.nonRetriable
  /\ attempt = MaxRetries

FailedNonRetriable ==
  /\ pc = "failed"
  /\ failure.nonRetriable

\* requests of node id that were answered with success
AnsweredOk(id) ==
  {i \in 1..Len(requests) :
     /\ requests[i].nodeId = id
     /\ ~requests[i].networkError
     /\ ResponseOk(requests[i])}

\* { workflowId, context } is returned and the loop has passed every node
\* of the sorted order: each executor was called and returned, and none
\* completed its request twice
ReturnedAfterEveryNode ==
  /\ pc = "done"
  /\ result = [returned |-> TRUE, workflowId |-> event.workflowId,
               context |-> context]
  /\ sortedNodes = memo.value
  /\ idx = Len(sortedNodes) + 1
  /\ \A i \in 1..Len(sortedNodes) :
        /\ sortedNodes[i].id \in Range(invoked)
        /\ Cardinality(AnsweredOk(sortedNodes[i].id)) <= 1

SeedOf(ev) == IF ev.hasInitialData THEN ev.initialData ELSE EmptyContext

RECURSIVE SoloLoop(_, _, _, _, _)
\* the context the loop ends with when the execution runs alone and every
\* request is answered: node i on, with context ctx, the steps seen so far
\* in this run and the checkpoints written so far
SoloLoop(nodes, i, ctx, seen, checkpoints) ==
  IF i > Len(nodes) THEN ctx
  ELSE LET executor == getExecutor(nodes[i].type).executor
           name == StepOf(executor)
           id == StepId(keying, name, seen[name])
           value == IF id \in DOMAIN checkpoints THEN checkpoints[id]
                    ELSE CallExecutor(executor, nodes[i], ctx).context
       IN SoloLoop(nodes, i + 1, value,
                   [seen EXCEPT ![name] = @ + 1], Put(checkpoints, id, value))

\* what execution x returns when it runs alone
SoloContext(x) ==
  SoloLoop(x.sortedNodes, 1, SeedOf(x.event), NoSteps, NoCheckpoints)

\* execution x has returned the context of its run alone
ReturnsAsAlone(x) ==
  x.pc = "done"
  => /\ x.result.returned
     /\ x.result.context = SoloContext(x)

\* C25: two executions of the same workflow that run side by side share no
\* in-memory state: however their steps interleave, the context either one
\* returns is the context it returns when it runs alone, which is built
\* from its own initialData and its own step results only.
C25_ExecutionsShareNothing ==
  running # 0 => (ReturnsAsAlone(RunningExecution) /\ ReturnsAsAlone(parked))

\* reached: both executions have returned, each after a retried request,
\* the one that started first ending last, with different contexts
C25_Witness ==
  /\ running = 1
  /\ pc = "done"
  /\ parked.pc = "done"
  /\ attempt > 0
  /\ parked.attempt > 0
  /\ Len(sortedNodes) = 2
  /\ event.hasInitialData
  /\ parked.event.hasInitialData
  /\ result.context # parked.result.context

\* an execution that ran alone has returned the context of its run alone
SoloReturnsAsAlone ==
  running = 0 => ReturnsAsAlone(RunningExecution)

====
